---- MODULE Spec2Model ----
(***************************************************************************)
(* Xpring-JS: the client operations (XpringClient, DefaultXpringClient)    *)
(* over a NetworkClient backend (FakeLegacyNetworkClient or the gRPC       *)
(* network clients), as a state machine.  Every JavaScript value is a      *)
(* record tagged by "kind", so that values of different types compare.     *)
(***************************************************************************)
EXTENDS Integers, Sequences, FiniteSets, TLC

VARIABLES
    client,      \* which client class the instance under test is
    backend,     \* which NetworkClient implementation it was constructed with
    responses,   \* the FakeLegacyNetworkClientResponses of a fake backend
    calls,       \* one record per invocation of a public operation
    netlog,      \* per invocation: the NetworkClient requests issued, in order
    signlog,     \* per invocation: the transactions handed to the Signer, in order
    transport    \* per invocation: the calls made on the gRPC stub, in order

vars == <<client, backend, responses, calls, netlog, signlog, transport>>

\* ------------------------------------------------------------------ bounds

\* How many operations are invoked (and may be in flight together) on the instance.
MaxCalls == 2

CallIds == 1..MaxCalls

\* -------------------------------------------------------- JavaScript values

Undefined == [kind |-> "undefined"]
Null == [kind |-> "null"]
Num(n) == [kind |-> "number", value |-> n]
\* A string is the sequence of its UTF-16 code units.
Str(s) == [kind |-> "string", chars |-> s]

\* Runs of printable ASCII characters, each with the code of its first one.
AsciiRuns ==
    <<<<32, " !">>,
      <<35, "#$%&'()*+,-./0123456789:;<=>?@ABCDEFGHIJKLMNOPQRSTUVWXYZ[">>,
      <<93, "]^_">>,
      <<97, "abcdefghijklmnopqrstuvwxyz{|}~">>>>

\* The code unit of a printable ASCII character.
Unit(ch) ==
    LET at(r) == {k \in 1..Len(AsciiRuns[r][2]) : SubSeq(AsciiRuns[r][2], k, k) = ch}
        run == CHOOSE r \in 1..Len(AsciiRuns) : at(r) # {}
    IN  AsciiRuns[run][1] + (CHOOSE k \in at(run) : TRUE) - 1

\* The code units of a string of printable ASCII characters.
Units(s) == [i \in 1..Len(s) |-> Unit(SubSeq(s, i, i))]

\* An error is an object of a class: kind is the class, prototypes are the
\* classes of its prototype chain, from its own class up to Object.
Error(m) == [kind |-> "Error", prototypes |-> <<"Error", "Object">>, message |-> m]
TypeError(m) ==
    [kind |-> "TypeError", prototypes |-> <<"TypeError", "Error", "Object">>,
     message |-> m]
\* An error of a class a caller declares: TimeoutError extends NetworkError,
\* which extends Error.
TimeoutError(m) ==
    [kind |-> "TimeoutError",
     prototypes |-> <<"TimeoutError", "NetworkError", "Error", "Object">>,
     message |-> m]

\* x == undefined / x == null (loose equality): true of both absent values.
LooseNullish(v) == v = Undefined \/ v = Null

\* !x : the falsy values that can occur here.
Falsy(v) == v = Undefined \/ v = Null \/ v = Str(<<>>) \/ v = Num(0)

\* A settled promise.
Resolved(v) == [state |-> "fulfilled", value |-> v]
Rejected(e) == [state |-> "rejected", value |-> e]
Pending == [state |-> "pending", value |-> Undefined]

\* --------------------------------------------------------- error messages

malformedResponse == "Malformed Response."
signingFailure == "Unable to sign the transaction"
unimplemented == "Unimplemented."
xAddressRequired == "Please use the X-Address format. See: https://xrpaddress.info/."

\* ------------------------------------------------------- protocol messages

XRPAmount(d) == [kind |-> "XRPAmount", drops |-> d]
Fee(a) == [kind |-> "Fee", amount |-> a]
AccountInfo(b, s) == [kind |-> "AccountInfo", balance |-> b, sequence |-> s]
SubmitSignedTransactionResponse(r, c, m, b) ==
    [kind |-> "SubmitSignedTransactionResponse", engineResult |-> r,
     engineResultCode |-> c, engineResultMessage |-> m, transactionBlob |-> b]
LedgerSequence(i) == [kind |-> "LedgerSequence", index |-> i]
TransactionStatus(v, c) ==
    [kind |-> "TransactionStatus", validated |-> v, transactionStatusCode |-> c]

GetFeeRequest == [kind |-> "GetFeeRequest"]
GetAccountInfoRequest(a) == [kind |-> "GetAccountInfoRequest", address |-> a]
SubmitSignedTransactionRequest(s) ==
    [kind |-> "SubmitSignedTransactionRequest", signedTransaction |-> s]
GetLatestValidatedLedgerSequenceRequest ==
    [kind |-> "GetLatestValidatedLedgerSequenceRequest"]
GetTransactionStatusRequest(h) ==
    [kind |-> "GetTransactionStatusRequest", transactionHash |-> h]
InjectionRequest(o) == [kind |-> "InjectionRequest", operation |-> o]
InjectionResponse(r) == [kind |-> "InjectionResponse", result |-> r]

Payment(a, d) == [kind |-> "Payment", xrpAmount |-> a, destination |-> d]
Transaction(acc, f, s, p) ==
    [kind |-> "Transaction", account |-> acc, fee |-> f, sequence |-> s, payment |-> p]

\* The getters of the generated messages: a field reads as the value it holds.
getAmount(fee) == fee.amount
getSequence(accountInfo) == accountInfo.sequence
getBalance(accountInfo) == accountInfo.balance


\* ------------------------------------------------------------ the inputs

\* Two addresses of the ledger in the X-Address format, one classic address, and a
\* string that is no address at all.
ValidXAddresses ==
    {"X7cBcY4bdTTzk3LHmrKAK6GyrirkXfLHGFxzke5zTmYMfw4",
     "XVYUQ3SdUcVnaTNVanDYo1NamrUukPUPeoGMnmvkEExbtrj"}
ClassicAddresses == {"rHb9CJAWyB4rj91VRWn96DkukG4bwdtyTh"}
Addresses == ValidXAddresses \cup ClassicAddresses \cup {"xrp"}

\* Utils.isValidXAddress of xpring-common-js.
isValidXAddress(address) == address \in ValidXAddresses

\* The address-format check of the specification: an X-Address or a classic address.
isValidAddress(address) == address \in ValidXAddresses \cup ClassicAddresses

\* A wallet derives its address from its keys: it is always well formed.
Wallet(a) == [kind |-> "Wallet", address |-> a]
Wallets == {Wallet("XVYUQ3SdUcVnaTNVanDYo1NamrUukPUPeoGMnmvkEExbtrj")}
getAddress(wallet) == wallet.address

Amounts == {XRPAmount("1")}
Destinations == {"X7cBcY4bdTTzk3LHmrKAK6GyrirkXfLHGFxzke5zTmYMfw4", "xrp"}
QueriedAddresses ==
    {"X7cBcY4bdTTzk3LHmrKAK6GyrirkXfLHGFxzke5zTmYMfw4",
     "rHb9CJAWyB4rj91VRWn96DkukG4bwdtyTh", "xrp"}

\* ------------------------------------------------- FakeLegacyNetworkClient

defaultError == Error("fake network client failure")

defaultAccountInfoResponse == AccountInfo(XRPAmount("4000"), Undefined)
\* defaultAccountInfoResponse() sets the balance only.  What getSequence() reads
\* from it is up to the generated message class: undefined (above) or, for a
\* scalar field, the number 0 (below).
defaultAccountInfoResponse_sequenceZero == AccountInfo(XRPAmount("4000"), Num(0))
defaultFeeResponse == Fee(XRPAmount("10"))
defaultSubmitSignedTransactionResponse ==
    SubmitSignedTransactionResponse("tesSUCCESS", Num(0),
        "The transaction was applied. Only final in a validated ledger.", "DEADBEEF")
defaultLedgerSequenceResponse == LedgerSequence(Num(12))
defaultTransactionStatusResponse == TransactionStatus(TRUE, "tesSUCCESS")

FakeLegacyNetworkClientResponses(ai, fee, submit, ledger, status) ==
    [getAccountInfoResponse |-> ai, getFeeResponse |-> fee,
     submitSignedTransactionResponse |-> submit,
     getLatestValidatedLedgerSequenceResponse |-> ledger,
     getTransactionStatusResponse |-> status]

defaultSuccessfulResponses ==
    FakeLegacyNetworkClientResponses(defaultAccountInfoResponse, defaultFeeResponse,
        defaultSubmitSignedTransactionResponse, defaultLedgerSequenceResponse,
        defaultTransactionStatusResponse)

defaultErrorResponses ==
    FakeLegacyNetworkClientResponses(defaultError, defaultError, defaultError,
        defaultError, defaultError)

\* A constructor parameter that was left out takes its default value.
DefaultParameter(argument, default) == IF argument = Undefined THEN default ELSE argument

\* new FakeLegacyNetworkClientResponses(...): every response defaults to a success.
FakeLegacyNetworkClientResponses_constructor(ai, fee, submit, ledger, status) ==
    FakeLegacyNetworkClientResponses(
        DefaultParameter(ai, defaultAccountInfoResponse),
        DefaultParameter(fee, defaultFeeResponse),
        DefaultParameter(submit, defaultSubmitSignedTransactionResponse),
        DefaultParameter(ledger, defaultLedgerSequenceResponse),
        DefaultParameter(status, defaultTransactionStatusResponse))

\* The same responses, where the default account info reads its sequence as 0.
WithSequenceReadAsZero(r) ==
    IF r.getAccountInfoResponse = defaultAccountInfoResponse
    THEN [r EXCEPT !.getAccountInfoResponse = defaultAccountInfoResponse_sequenceZero]
    ELSE r

\* The constructor arguments tried: left out, the default error, an error of a
\* built-in class that extends Error, or an error of a class the caller
\* declared, two classes below Error.
FakeArguments == {Undefined, defaultError, TypeError("boom"), TimeoutError("timed out")}

\* The fake backends a caller can construct.
FakeConfigurations ==
    LET constructed ==
            {FakeLegacyNetworkClientResponses_constructor(ai, fee, submit, ledger, status) :
                ai \in FakeArguments, fee \in FakeArguments, submit \in FakeArguments,
                ledger \in FakeArguments, status \in FakeArguments}
    IN  constructed \cup {WithSequenceReadAsZero(r) : r \in constructed}

\* A variant of the test that asks for the class Error itself.
instanceofError_ownClass(v) == v.kind = "Error"

\* response instanceof Error: Error is on the prototype chain of the value, so
\* the value is of the class Error or of any class that extends it, however far.
instanceofError(v) ==
    /\ "prototypes" \in DOMAIN v
    /\ \E i \in 1..Len(v.prototypes) : v.prototypes[i] = "Error"

FakeLegacyNetworkClient_getAccountInfo(r) ==
    IF instanceofError(r.getAccountInfoResponse)
    THEN Rejected(r.getAccountInfoResponse)
    ELSE Resolved(r.getAccountInfoResponse)

\* A variant of the fake's getFee that answers from the account info response.
FakeLegacyNetworkClient_getFee_crossed(r) ==
    IF instanceofError(r.getAccountInfoResponse)
    THEN Rejected(r.getAccountInfoResponse)
    ELSE Resolved(r.getFeeResponse)

FakeLegacyNetworkClient_getFee(r) ==
    IF instanceofError(r.getFeeResponse)
    THEN Rejected(r.getFeeResponse)
    ELSE Resolved(r.getFeeResponse)

FakeLegacyNetworkClient_submitSignedTransaction(r) ==
    IF instanceofError(r.submitSignedTransactionResponse)
    THEN Rejected(r.submitSignedTransactionResponse)
    ELSE Resolved(r.submitSignedTransactionResponse)

FakeLegacyNetworkClient_getLatestValidatedLedgerSequence(r) ==
    IF instanceofError(r.getLatestValidatedLedgerSequenceResponse)
    THEN Rejected(r.getLatestValidatedLedgerSequenceResponse)
    ELSE Resolved(r.getLatestValidatedLedgerSequenceResponse)

FakeLegacyNetworkClient_getTransactionStatus(r) ==
    IF instanceofError(r.getTransactionStatusResponse)
    THEN Rejected(r.getTransactionStatusResponse)
    ELSE Resolved(r.getTransactionStatusResponse)

\* ----------------------------------- the gRPC network clients (transport)

\* What the generated transport stub hands to the callback: (error, response).
ServiceError == Error("14 UNAVAILABLE: Connect Failed")
TransportErrors == {Null, ServiceError}

\* The callback of a network client operation called on its own: the absent
\* error and the absent response come as null or as undefined.
CallbackErrors == {Null, Undefined, ServiceError}
CallbackResponses(response) == {Null, Undefined, response}

FeeResponses == {Fee(Undefined), Fee(XRPAmount("10"))}
AccountInfoResponses ==
    {AccountInfo(XRPAmount("4000"), Num(12)), AccountInfo(XRPAmount("4000"), Num(13)),
     AccountInfo(Undefined, Undefined), AccountInfo(Null, Undefined)}
SubmitResponses ==
    {defaultSubmitSignedTransactionResponse,
     SubmitSignedTransactionResponse("tecUNFUNDED_PAYMENT", Num(104),
        "Insufficient XRP balance to send.", "CAFE")}

\* if (error != null || response == null) { reject(error); return; } resolve(response);
LegacyGRPCNetworkClient_getAccountInfo(error, response) ==
    IF ~LooseNullish(error) \/ LooseNullish(response)
    THEN Rejected(error)
    ELSE Resolved(response)

LegacyGRPCNetworkClient_getFee(error, response) ==
    IF ~LooseNullish(error) \/ LooseNullish(response)
    THEN Rejected(error)
    ELSE Resolved(response)

\* if (error !== null || response === null) { reject(error); return; } resolve(response);
LegacyGRPCNetworkClient_submitSignedTransaction(error, response) ==
    IF error # Null \/ response = Null
    THEN Rejected(error)
    ELSE Resolved(response)

LegacyGRPCNetworkClient_getLatestValidatedLedgerSequence(error, response) ==
    IF ~LooseNullish(error) \/ LooseNullish(response)
    THEN Rejected(error)
    ELSE Resolved(response)

LegacyGRPCNetworkClient_getTransactionStatus(error, response) ==
    IF ~LooseNullish(error) \/ LooseNullish(response)
    THEN Rejected(error)
    ELSE Resolved(response)

\* GRPCNetworkClient.getAccountInfo: the same rule as the legacy client's.
GRPCNetworkClient_getAccountInfo(error, response) ==
    IF ~LooseNullish(error) \/ LooseNullish(response)
    THEN Rejected(error)
    ELSE Resolved(response)

GRPCNetworkClient_injectOperation(error, response) ==
    IF ~LooseNullish(error) \/ LooseNullish(response)
    THEN Rejected(error)
    ELSE Resolved(response)

\* GRPCNetworkClient.getFee: the settle rule every backend operation follows.
GRPCNetworkClient_getFee(error, response) ==
    IF ~LooseNullish(error) \/ LooseNullish(response)
    THEN Rejected(error)
    ELSE Resolved(response)

\* The messages of the rpc/v1 protocol, which DefaultXpringClient reads.
AccountAddress(a) == [kind |-> "AccountAddress", address |-> a]
GetAccountInfoRequestV1(acc) == [kind |-> "rpc.v1.GetAccountInfoRequest", account |-> acc]
GetFeeRequestV1 == [kind |-> "rpc.v1.GetFeeRequest"]
AccountRoot(b) == [kind |-> "AccountRoot", balance |-> b]
GetAccountInfoResponse(d) == [kind |-> "GetAccountInfoResponse", accountData |-> d]
XRPDropsAmount(d) == [kind |-> "XRPDropsAmount", drops |-> d]
FeeDrops(m) == [kind |-> "Fee", minimumFee |-> m]
GetFeeResponse(d) == [kind |-> "GetFeeResponse", drops |-> d]

getAccountData(accountInfo) == accountInfo.accountData
getDrops(getFeeResponse) == getFeeResponse.drops
getMinimumFee(fee) == fee.minimumFee

BalancesV1 ==
    {Undefined, Str(<<>>), Str(Units("0")), Str(Units("4000")), Str(Units("-5")),
     Str(Units("+7")), Str(Units(" 42 ")), Str(Units("0x10")),
     Str(Units("4000 drops")), Str(<<11>> \o Units("42")),
     Str(Units("7") \o <<8232, 12288>>), Str(<<133>> \o Units("42"))}
GetAccountInfoResponses ==
    {GetAccountInfoResponse(Undefined)}
        \cup {GetAccountInfoResponse(AccountRoot(b)) : b \in BalancesV1}
GetFeeResponses ==
    {GetFeeResponse(Undefined), GetFeeResponse(FeeDrops(Undefined)),
     GetFeeResponse(FeeDrops(XRPDropsAmount("10")))}

\* What a NetworkClient call of the instance's backend can settle with.
getAccountInfoOutcomes ==
    CASE backend = "FakeLegacyNetworkClient" ->
            {FakeLegacyNetworkClient_getAccountInfo(responses)}
      [] backend = "LegacyGRPCNetworkClient" ->
            {LegacyGRPCNetworkClient_getAccountInfo(e, r) :
                e \in TransportErrors, r \in {Null} \cup AccountInfoResponses}
      [] backend = "GRPCNetworkClient" ->
            {GRPCNetworkClient_getAccountInfo(e, r) :
                e \in TransportErrors,
                r \in {Null} \cup (IF client = "XpringClient"
                                   THEN AccountInfoResponses
                                   ELSE GetAccountInfoResponses)}

getFeeOutcomes ==
    CASE backend = "FakeLegacyNetworkClient" ->
            {FakeLegacyNetworkClient_getFee(responses)}
      [] backend = "LegacyGRPCNetworkClient" ->
            {LegacyGRPCNetworkClient_getFee(e, r) :
                e \in TransportErrors, r \in {Null} \cup FeeResponses}
      [] backend = "GRPCNetworkClient" ->
            {GRPCNetworkClient_getFee(e, r) :
                e \in TransportErrors, r \in {Null} \cup GetFeeResponses}

submitSignedTransactionOutcomes ==
    CASE backend = "FakeLegacyNetworkClient" ->
            {FakeLegacyNetworkClient_submitSignedTransaction(responses)}
      [] OTHER ->
            {LegacyGRPCNetworkClient_submitSignedTransaction(e, r) :
                e \in TransportErrors, r \in {Null} \cup SubmitResponses}

\* ------------------------------------------------------------- the Signer

\* Signer.signTransaction(transaction, wallet) returns the signed transaction,
\* returns nothing, or throws.
SignedTransaction(t, w) ==
    [kind |-> "SignedTransaction", transaction |-> t, signer |-> getAddress(w)]
SignerError == Error("Invalid private key")
SignerBehaviours == {"signs", "returnsUndefined", "throws"}
Signer_signTransaction(behaviour, transaction, wallet) ==
    CASE behaviour = "signs" ->
            [threw |-> FALSE, value |-> SignedTransaction(transaction, wallet)]
      [] behaviour = "returnsUndefined" -> [threw |-> FALSE, value |-> Undefined]
      [] behaviour = "throws" -> [threw |-> TRUE, value |-> SignerError]

\* ------------------------------------------------- XpringClient (handlers)

\* A variant of getBalance's callback that hands back the whole account info.
XpringClient_getBalance_then_unprojected(accountInfo) ==
    IF getBalance(accountInfo) = Undefined
    THEN Rejected(Error(malformedResponse))
    ELSE Resolved(accountInfo)

\* getBalance's callback on the account info.
XpringClient_getBalance_then(accountInfo) ==
    LET balance == getBalance(accountInfo)
    IN  IF balance = Undefined
        THEN Rejected(Error(malformedResponse))
        ELSE Resolved(balance)

\* A variant of getFee's callback without the check of the amount.
XpringClient_getFee_then_unchecked(fee) == Resolved(getAmount(fee))

\* getFee's callback on the fee response.
XpringClient_getFee_then(fee) ==
    LET feeAmount == getAmount(fee)
    IN  IF LooseNullish(feeAmount)
        THEN Rejected(Error(malformedResponse))
        ELSE Resolved(feeAmount)

\* A variant of the assembly that leaves the fee of the transaction unset.
XpringClient_send_transaction_unpriced(sender, amount, destination, fee, accountInfo) ==
    Transaction(getAddress(sender), Undefined, getSequence(accountInfo),
                Payment(amount, destination))

\* A variant of the assembly that sets the destination as the account and pays
\* to the sender.
XpringClient_send_transaction_swapped(sender, amount, destination, fee, accountInfo) ==
    Transaction(destination, fee, getSequence(accountInfo),
                Payment(amount, getAddress(sender)))

\* The transaction send assembles.
XpringClient_send_transaction(sender, amount, destination, fee, accountInfo) ==
    Transaction(getAddress(sender), fee, getSequence(accountInfo),
                Payment(amount, destination))

\* A variant of the message of a signing failure that drops the cause.
XpringClient_signingErrorMessage_bare(signingError) == signingFailure

\* The message send fails with when the Signer throws signingError.
XpringClient_signingErrorMessage(signingError) ==
    signingFailure \o ". " \o signingError.message

\* A variant of the signing step that submits whatever the Signer returned.
XpringClient_send_sign_unchecked(transaction, sender, behaviour) ==
    LET s == Signer_signTransaction(behaviour, transaction, sender)
        entry == [transaction |-> transaction, wallet |-> sender, outcome |-> s]
    IN  IF s.threw
        THEN [result |-> Rejected(Error(XpringClient_signingErrorMessage(s.value))),
              signed |-> <<entry>>, submitted |-> <<>>]
        ELSE [result |-> Pending, signed |-> <<entry>>,
              submitted |-> <<SubmitSignedTransactionRequest(s.value)>>]

\* A variant of the signing step that submits the transaction as it was before
\* signing instead of what the Signer returned.
XpringClient_send_sign_unsigned(transaction, sender, behaviour) ==
    LET s == Signer_signTransaction(behaviour, transaction, sender)
        entry == [transaction |-> transaction, wallet |-> sender, outcome |-> s]
    IN  IF s.threw
        THEN [result |-> Rejected(Error(XpringClient_signingErrorMessage(s.value))),
              signed |-> <<entry>>, submitted |-> <<>>]
        ELSE IF LooseNullish(s.value)
        THEN [result |-> Rejected(Error(signingFailure)), signed |-> <<entry>>,
              submitted |-> <<>>]
        ELSE [result |-> Pending, signed |-> <<entry>>,
              submitted |-> <<SubmitSignedTransactionRequest(transaction)>>]

\* A variant of the signing step that settles nothing when the Signer returns no
\* signed transaction: the promise of the send stays pending.
XpringClient_send_sign_hanging(transaction, sender, behaviour) ==
    LET s == Signer_signTransaction(behaviour, transaction, sender)
        entry == [transaction |-> transaction, wallet |-> sender, outcome |-> s]
    IN  IF s.threw
        THEN [result |-> Rejected(Error(XpringClient_signingErrorMessage(s.value))),
              signed |-> <<entry>>, submitted |-> <<>>]
        ELSE IF LooseNullish(s.value)
        THEN [result |-> Pending, signed |-> <<entry>>, submitted |-> <<>>]
        ELSE [result |-> Pending, signed |-> <<entry>>,
              submitted |-> <<SubmitSignedTransactionRequest(s.value)>>]

\* The signing step of send and the submit request it builds.  result stays
\* pending when the request is sent.
XpringClient_send_sign(transaction, sender, behaviour) ==
    LET s == Signer_signTransaction(behaviour, transaction, sender)
        entry == [transaction |-> transaction, wallet |-> sender, outcome |-> s]
    IN  IF s.threw
        THEN [result |-> Rejected(Error(XpringClient_signingErrorMessage(s.value))),
              signed |-> <<entry>>, submitted |-> <<>>]
        ELSE IF LooseNullish(s.value)
        THEN [result |-> Rejected(Error(signingFailure)),
              signed |-> <<entry>>, submitted |-> <<>>]
        ELSE [result |-> Pending, signed |-> <<entry>>,
              submitted |-> <<SubmitSignedTransactionRequest(s.value)>>]

\* A variant of send's callback without the check of the sequence number.
XpringClient_send_then_unchecked(sender, amount, destination, fee, accountInfo, behaviour) ==
    XpringClient_send_sign(
        XpringClient_send_transaction(sender, amount, destination, fee, accountInfo),
        sender, behaviour)

\* A variant of send's second callback that hands the transaction to the Signer
\* before it looks at the sequence.
XpringClient_send_then_signFirst(sender, amount, destination, fee, accountInfo, behaviour) ==
    LET r == XpringClient_send_sign(
                XpringClient_send_transaction(sender, amount, destination, fee, accountInfo),
                sender, behaviour)
    IN  IF LooseNullish(getSequence(accountInfo))
        THEN [result |-> Rejected(Error(malformedResponse)), signed |-> r.signed,
              submitted |-> <<>>]
        ELSE r

\* send's callback on the account info: the sequence check, the assembly, the
\* signing and the submit request.
XpringClient_send_then(sender, amount, destination, fee, accountInfo, behaviour) ==
    IF LooseNullish(getSequence(accountInfo))
    THEN [result |-> Rejected(Error(malformedResponse)), signed |-> <<>>,
          submitted |-> <<>>]
    ELSE XpringClient_send_sign(
            XpringClient_send_transaction(sender, amount, destination, fee, accountInfo),
            sender, behaviour)

\* ------------------------------------------ DefaultXpringClient (handlers)

\* The value of a code unit as a digit: "0".."9" (48..57), "a".."f" (97..102)
\* or "A".."F" (65..70); 16 for a code unit that is no digit.
DigitValue(u) ==
    CASE u \in 48..57 -> u - 48
      [] u \in 97..102 -> u - 87
      [] u \in 65..70 -> u - 55
      [] OTHER -> 16

IsDigit(u, radix) == DigitValue(u) < radix

\* One or more digits of the radix, and nothing else.
IsDigits(s, radix) ==
    /\ Len(s) > 0
    /\ \A i \in 1..Len(s) : IsDigit(s[i], radix)

RECURSIVE DigitsValue(_, _)
DigitsValue(s, radix) ==
    IF Len(s) = 0 THEN 0
    ELSE radix * DigitsValue(SubSeq(s, 1, Len(s) - 1), radix) + DigitValue(s[Len(s)])

\* The code units a numeric string may begin and end with: the white space
\* (tab, vertical tab, form feed, the space, the no-break space, the byte order
\* mark and the other space separators) and the line terminators (line feed,
\* carriage return, line separator, paragraph separator).
WhiteSpace ==
    {9, 11, 12, 32, 160, 65279, 5760, 8239, 8287, 12288} \cup (8192..8202)
        \cup {10, 13, 8232, 8233}

RECURSIVE TrimStart(_)
TrimStart(s) ==
    IF Len(s) > 0 /\ s[1] \in WhiteSpace
    THEN TrimStart(SubSeq(s, 2, Len(s)))
    ELSE s

RECURSIVE TrimEnd(_)
TrimEnd(s) ==
    IF Len(s) > 0 /\ s[Len(s)] \in WhiteSpace
    THEN TrimEnd(SubSeq(s, 1, Len(s) - 1))
    ELSE s

\* The radix a prefix of two code units announces, 0 when it announces none:
\* "0x" or "0X" (120, 88), "0o" or "0O" (111, 79), "0b" or "0B" (98, 66).
PrefixRadix(s) ==
    IF Len(s) < 2 \/ s[1] # 48 THEN 0
    ELSE CASE s[2] \in {120, 88} -> 16
           [] s[2] \in {111, 79} -> 8
           [] s[2] \in {98, 66} -> 2
           [] OTHER -> 0

\* The SyntaxError of BigInt; its message is kept in code units.
SyntaxError(m) ==
    [kind |-> "SyntaxError", prototypes |-> <<"SyntaxError", "Error", "Object">>,
     messageUnits |-> m]

\* BigInt(value) of a string: the string is trimmed; the empty string is 0, a
\* radix prefix is followed by digits of that radix, decimal digits may follow a
\* sign ("+" 43, "-" 45); anything else is a SyntaxError.
BigInt(v) ==
    LET text == TrimEnd(TrimStart(v.chars))
        radix == PrefixRadix(text)
        signed == Len(text) > 0 /\ text[1] \in {43, 45}
        digits == IF signed THEN SubSeq(text, 2, Len(text)) ELSE text
        bigint(n) == Resolved([kind |-> "bigint", value |-> n])
    IN  IF Len(text) = 0
        THEN bigint(0)
        ELSE IF radix # 0 /\ IsDigits(SubSeq(text, 3, Len(text)), radix)
        THEN bigint(DigitsValue(SubSeq(text, 3, Len(text)), radix))
        ELSE IF IsDigits(digits, 10)
        THEN bigint(IF text[1] = 45
                    THEN 0 - DigitsValue(digits, 10)
                    ELSE DigitsValue(digits, 10))
        ELSE Rejected(SyntaxError(Units("Cannot convert ") \o v.chars
                                    \o Units(" to a BigInt")))

\* getBalance after the await of getAccountInfo.
DefaultXpringClient_getBalance_await(accountInfo) ==
    LET accountData == getAccountData(accountInfo)
    IN  IF Falsy(accountData)
        THEN Rejected(Error(malformedResponse))
        ELSE IF Falsy(getBalance(accountData))
        THEN Rejected(Error(malformedResponse))
        ELSE BigInt(getBalance(accountData))

\* getFee after the await of the backend's getFee.
DefaultXpringClient_getFee_await(getFeeResponse) ==
    LET fee == getDrops(getFeeResponse)
    IN  IF Falsy(fee)
        THEN Rejected(Error(malformedResponse))
        ELSE IF Falsy(getMinimumFee(fee))
        THEN Rejected(Error(malformedResponse))
        ELSE Resolved(getMinimumFee(fee))

\* The stubs: throw new Error(XpringClientErrorMessages.unimplemented).
DefaultXpringClient_unimplemented == Rejected(Error(unimplemented))

\* --------------------------------------------------------------- the state

NoCall ==
    [op |-> "none", pc |-> "idle", address |-> "", sender |-> Undefined,
     amount |-> Undefined, destination |-> "", fee |-> Undefined, result |-> Pending]

\* Invocations are numbered in the order they are made.
CanStart(c) ==
    /\ calls[c].pc = "idle"
    /\ IF c = 1 THEN TRUE ELSE calls[c - 1].pc # "idle"

\* The NetworkClient is called with a request: its promise is pending.
Issued(log, op, request) ==
    Append(log, [op |-> op, request |-> request, settled |-> Pending])

\* The promise of the last NetworkClient call settles.
Settled(log, settled) == [log EXCEPT ![Len(log)].settled = settled]

\* The stub is called with a request and a callback.
Called(log, op, request) ==
    Append(log, [op |-> op, request |-> request, calledBack |-> FALSE,
                 error |-> Undefined, response |-> Undefined])

\* The stub runs the callback of its last call with (error, response).
CalledBack(log, error, response) ==
    [log EXCEPT ![Len(log)].calledBack = TRUE, ![Len(log)].error = error,
                ![Len(log)].response = response]

\* The network client of an XpringClient constructed without an argument.
defaultNetworkClient == "GRPCNetworkClient"

\* The operations the network client of an XpringClient has: the
\* GRPCNetworkClient of the XpringClient's module has no getFee and no
\* submitSignedTransaction.
XpringClient_networkClient_operations ==
    IF backend = "GRPCNetworkClient"
    THEN {"getAccountInfo", "injectOperation"}
    ELSE {"getAccountInfo", "getFee", "submitSignedTransaction",
          "getLatestValidatedLedgerSequence", "getTransactionStatus"}

\* A call of an operation the network client does not have.
NotAFunction(op) == TypeError("this.networkClient." \o op \o " is not a function")

\* The instance under test is a client over a backend, or (client = "none") a
\* backend whose operations are called directly. An XpringClient constructed
\* without a network client is over the default network client.
Init ==
    /\ client \in {"XpringClient", "DefaultXpringClient", "none"}
    /\ backend \in
         CASE client = "XpringClient" ->
                {"FakeLegacyNetworkClient", "LegacyGRPCNetworkClient",
                 defaultNetworkClient}
           [] client = "DefaultXpringClient" ->
                {"FakeLegacyNetworkClient", "GRPCNetworkClient"}
           [] OTHER ->
                {"FakeLegacyNetworkClient", "LegacyGRPCNetworkClient", "GRPCNetworkClient"}
    /\ responses \in
         CASE backend # "FakeLegacyNetworkClient" -> {defaultSuccessfulResponses}
           [] client = "XpringClient" ->
                {defaultSuccessfulResponses,
                 WithSequenceReadAsZero(defaultSuccessfulResponses),
                 defaultErrorResponses}
           [] client = "DefaultXpringClient" -> {defaultErrorResponses}
           [] OTHER -> FakeConfigurations
    /\ calls = [c \in CallIds |-> NoCall]
    /\ netlog = [c \in CallIds |-> <<>>]
    /\ signlog = [c \in CallIds |-> <<>>]
    /\ transport = [c \in CallIds |-> <<>>]

\* ------------------------------------------------- XpringClient (actions)

\* getBalance(address): getAccountInfo(address) is requested at once.
XpringClient_getBalance(c, address) ==
    /\ client = "XpringClient"
    /\ CanStart(c)
    /\ calls' = [calls EXCEPT ![c] =
                    [NoCall EXCEPT !.op = "getBalance", !.pc = "getAccountInfo",
                                   !.address = address]]
    /\ netlog' = [netlog EXCEPT ![c] =
                    Issued(@, "getAccountInfo", GetAccountInfoRequest(address))]
    /\ UNCHANGED <<client, backend, responses, signlog, transport>>

\* A variant of getBalance that reports every backend failure as a malformed response.
XpringClient_getBalance_settled_wrapping(c, settled) ==
    /\ client = "XpringClient"
    /\ calls[c].op = "getBalance"
    /\ calls[c].pc = "getAccountInfo"
    /\ calls' = [calls EXCEPT ![c].pc = "done",
                     ![c].result =
                        IF settled.state = "rejected"
                        THEN Rejected(Error(malformedResponse))
                        ELSE XpringClient_getBalance_then(settled.value)]
    /\ netlog' = [netlog EXCEPT ![c] = Settled(@, settled)]
    /\ UNCHANGED <<client, backend, responses, signlog, transport>>

\* A variant of getBalance's callback that asks for the account info once more
\* when the request was rejected.
XpringClient_getBalance_settled_retrying(c, settled) ==
    /\ client = "XpringClient"
    /\ calls[c].op = "getBalance"
    /\ calls[c].pc = "getAccountInfo"
    /\ IF settled.state = "rejected" /\ Len(netlog[c]) = 1
       THEN /\ netlog' = [netlog EXCEPT ![c] =
                    Issued(Settled(@, settled), "getAccountInfo",
                           GetAccountInfoRequest(calls[c].address))]
            /\ UNCHANGED calls
       ELSE /\ calls' = [calls EXCEPT ![c].pc = "done",
                              ![c].result =
                                  IF settled.state = "rejected"
                                  THEN settled
                                  ELSE XpringClient_getBalance_then(settled.value)]
            /\ netlog' = [netlog EXCEPT ![c] = Settled(@, settled)]
    /\ UNCHANGED <<client, backend, responses, signlog, transport>>

\* The account info request of a getBalance settles.
XpringClient_getBalance_settled(c, settled) ==
    /\ client = "XpringClient"
    /\ calls[c].op = "getBalance"
    /\ calls[c].pc = "getAccountInfo"
    /\ calls' = [calls EXCEPT ![c].pc = "done",
                              ![c].result =
                                  IF settled.state = "rejected"
                                  THEN settled
                                  ELSE XpringClient_getBalance_then(settled.value)]
    /\ netlog' = [netlog EXCEPT ![c] = Settled(@, settled)]
    /\ UNCHANGED <<client, backend, responses, signlog, transport>>

\* A variant of send that answers a repeated send from the finished send with the
\* same inputs, without calling the backend.
XpringClient_send_deduplicating(c, sender, amount, destination) ==
    /\ client = "XpringClient"
    /\ CanStart(c)
    /\ LET same(d) == /\ calls[d].op = "send"
                       /\ calls[d].pc = "done"
                       /\ calls[d].sender = sender
                       /\ calls[d].amount = amount
                       /\ calls[d].destination = destination
       IN  IF \E d \in 1..(c - 1) : same(d)
           THEN /\ calls' = [calls EXCEPT ![c] =
                        [NoCall EXCEPT !.op = "send", !.pc = "done", !.sender = sender,
                                       !.amount = amount, !.destination = destination,
                                       !.result =
                                            calls[CHOOSE d \in 1..(c - 1) : same(d)].result]]
                /\ UNCHANGED netlog
           ELSE IF "getFee" \in XpringClient_networkClient_operations
           THEN /\ calls' = [calls EXCEPT ![c] =
                        [NoCall EXCEPT !.op = "send", !.pc = "getFee", !.sender = sender,
                                       !.amount = amount, !.destination = destination]]
                /\ netlog' = [netlog EXCEPT ![c] = Issued(@, "getFee", GetFeeRequest)]
           ELSE /\ calls' = [calls EXCEPT ![c] =
                        [NoCall EXCEPT !.op = "send", !.pc = "done", !.sender = sender,
                                       !.amount = amount, !.destination = destination,
                                       !.result = Rejected(NotAFunction("getFee"))]]
                /\ UNCHANGED netlog
    /\ UNCHANGED <<client, backend, responses, signlog, transport>>

\* send(sender, amount, destination): getFee() requests the fee of the network
\* client at once; over a network client without getFee that call throws, and
\* the send is rejected with the TypeError.
XpringClient_send(c, sender, amount, destination) ==
    /\ client = "XpringClient"
    /\ CanStart(c)
    /\ IF "getFee" \in XpringClient_networkClient_operations
       THEN /\ calls' = [calls EXCEPT ![c] =
                    [NoCall EXCEPT !.op = "send", !.pc = "getFee", !.sender = sender,
                                   !.amount = amount, !.destination = destination]]
            /\ netlog' = [netlog EXCEPT ![c] = Issued(@, "getFee", GetFeeRequest)]
       ELSE /\ calls' = [calls EXCEPT ![c] =
                    [NoCall EXCEPT !.op = "send", !.pc = "done", !.sender = sender,
                                   !.amount = amount, !.destination = destination,
                                   !.result = Rejected(NotAFunction("getFee"))]]
            /\ UNCHANGED netlog
    /\ UNCHANGED <<client, backend, responses, signlog, transport>>

\* A variant of the fee step that hands send's first callback a fee whatever the
\* fee lookup gave.
XpringClient_getFee_settled_continuing(c, settled) ==
    /\ client = "XpringClient"
    /\ calls[c].op = "send"
    /\ calls[c].pc = "getFee"
    /\ LET fee == IF settled.state = "rejected"
                  THEN settled
                  ELSE XpringClient_getFee_then(settled.value)
       IN  calls' = [calls EXCEPT ![c].pc = "fee",
                                  ![c].fee = IF fee.state = "rejected"
                                             THEN Undefined
                                             ELSE fee.value]
    /\ netlog' = [netlog EXCEPT ![c] = Settled(@, settled)]
    /\ UNCHANGED <<client, backend, responses, signlog, transport>>

\* A variant of the fee step that keeps the fee of an earlier send of the
\* instance instead of the one it was just given.
XpringClient_getFee_settled_caching(c, settled) ==
    /\ client = "XpringClient"
    /\ calls[c].op = "send"
    /\ calls[c].pc = "getFee"
    /\ LET fee == IF settled.state = "rejected"
                  THEN settled
                  ELSE XpringClient_getFee_then(settled.value)
           cached == {d \in CallIds : calls[d].op = "send" /\ calls[d].fee # Undefined}
       IN  IF fee.state = "rejected"
           THEN calls' = [calls EXCEPT ![c].pc = "done", ![c].result = fee]
           ELSE calls' = [calls EXCEPT ![c].pc = "fee",
                                       ![c].fee =
                                           IF cached = {}
                                           THEN fee.value
                                           ELSE calls[CHOOSE d \in cached : TRUE].fee]
    /\ netlog' = [netlog EXCEPT ![c] = Settled(@, settled)]
    /\ UNCHANGED <<client, backend, responses, signlog, transport>>

\* The fee request of a send settles: getFee's callback reads the amount of the
\* fee. The promise of getFee() then holds the amount (pc "fee"), or the send is
\* rejected with getFee's error.
XpringClient_getFee_settled(c, settled) ==
    /\ client = "XpringClient"
    /\ calls[c].op = "send"
    /\ calls[c].pc = "getFee"
    /\ LET fee == IF settled.state = "rejected"
                  THEN settled
                  ELSE XpringClient_getFee_then(settled.value)
       IN  IF fee.state = "rejected"
           THEN calls' = [calls EXCEPT ![c].pc = "done", ![c].result = fee]
           ELSE calls' = [calls EXCEPT ![c].pc = "fee", ![c].fee = fee.value]
    /\ netlog' = [netlog EXCEPT ![c] = Settled(@, settled)]
    /\ UNCHANGED <<client, backend, responses, signlog, transport>>

\* send's first callback, a later job than getFee's callback: it is given the
\* fee and requests the sender's account info.
XpringClient_send_getAccountInfo(c) ==
    /\ client = "XpringClient"
    /\ calls[c].op = "send"
    /\ calls[c].pc = "fee"
    /\ calls' = [calls EXCEPT ![c].pc = "getAccountInfo"]
    /\ netlog' = [netlog EXCEPT ![c] =
            Issued(@, "getAccountInfo",
                   GetAccountInfoRequest(getAddress(calls[c].sender)))]
    /\ UNCHANGED <<client, backend, responses, signlog, transport>>

\* A variant of send's second callback that reads the destination from a field
\* of the instance, which the send started last has written.
XpringClient_getAccountInfo_settled_sharing(c, settled, behaviour) ==
    /\ client = "XpringClient"
    /\ calls[c].op = "send"
    /\ calls[c].pc = "getAccountInfo"
    /\ IF settled.state = "rejected"
       THEN /\ calls' = [calls EXCEPT ![c].pc = "done", ![c].result = settled]
            /\ netlog' = [netlog EXCEPT ![c] = Settled(@, settled)]
            /\ UNCHANGED signlog
       ELSE LET last == CHOOSE d \in CallIds :
                            /\ calls[d].op = "send"
                            /\ \A e \in CallIds : e > d => calls[e].op # "send"
                r == XpringClient_send_then(calls[c].sender, calls[c].amount,
                        calls[last].destination, calls[c].fee, settled.value, behaviour)
            IN  /\ signlog' = [signlog EXCEPT ![c] = @ \o r.signed]
                /\ IF r.submitted = <<>>
                   THEN /\ calls' = [calls EXCEPT ![c].pc = "done",
                                                  ![c].result = r.result]
                        /\ netlog' = [netlog EXCEPT ![c] = Settled(@, settled)]
                   ELSE /\ calls' = [calls EXCEPT ![c].pc = "submitSignedTransaction"]
                        /\ netlog' = [netlog EXCEPT ![c] =
                                Issued(Settled(@, settled), "submitSignedTransaction",
                                       r.submitted[1])]
    /\ UNCHANGED <<client, backend, responses, transport>>

\* The account info request of a send settles: send's second callback.
XpringClient_getAccountInfo_settled(c, settled, behaviour) ==
    /\ client = "XpringClient"
    /\ calls[c].op = "send"
    /\ calls[c].pc = "getAccountInfo"
    /\ IF settled.state = "rejected"
       THEN /\ calls' = [calls EXCEPT ![c].pc = "done", ![c].result = settled]
            /\ netlog' = [netlog EXCEPT ![c] = Settled(@, settled)]
            /\ UNCHANGED signlog
       ELSE LET r == XpringClient_send_then(calls[c].sender, calls[c].amount,
                        calls[c].destination, calls[c].fee, settled.value, behaviour)
            IN  /\ signlog' = [signlog EXCEPT ![c] = @ \o r.signed]
                /\ IF r.submitted = <<>>
                   THEN /\ calls' = [calls EXCEPT ![c].pc = "done",
                                                  ![c].result = r.result]
                        /\ netlog' = [netlog EXCEPT ![c] = Settled(@, settled)]
                   ELSE /\ calls' = [calls EXCEPT ![c].pc = "submitSignedTransaction"]
                        /\ netlog' = [netlog EXCEPT ![c] =
                                Issued(Settled(@, settled), "submitSignedTransaction",
                                       r.submitted[1])]
    /\ UNCHANGED <<client, backend, responses, transport>>

\* A variant of the last step that reads the engine result and fails the send
\* when the ledger did not apply the transaction.
XpringClient_submitSignedTransaction_settled_interpreting(c, settled) ==
    /\ client = "XpringClient"
    /\ calls[c].op = "send"
    /\ calls[c].pc = "submitSignedTransaction"
    /\ calls' = [calls EXCEPT ![c].pc = "done",
                     ![c].result =
                        IF settled.state = "fulfilled"
                            /\ settled.value.engineResult # "tesSUCCESS"
                        THEN Rejected(Error(settled.value.engineResultMessage))
                        ELSE settled]
    /\ netlog' = [netlog EXCEPT ![c] = Settled(@, settled)]
    /\ UNCHANGED <<client, backend, responses, signlog, transport>>

\* The submit request of a send settles: send's promise follows it.
XpringClient_submitSignedTransaction_settled(c, settled) ==
    /\ client = "XpringClient"
    /\ calls[c].op = "send"
    /\ calls[c].pc = "submitSignedTransaction"
    /\ calls' = [calls EXCEPT ![c].pc = "done", ![c].result = settled]
    /\ netlog' = [netlog EXCEPT ![c] = Settled(@, settled)]
    /\ UNCHANGED <<client, backend, responses, signlog, transport>>

\* ------------------------------------------ DefaultXpringClient (actions)

\* A variant of getBalance without the X-Address check.
DefaultXpringClient_getBalance_unvalidated(c, address) ==
    /\ client = "DefaultXpringClient"
    /\ CanStart(c)
    /\ calls' = [calls EXCEPT ![c] =
                    [NoCall EXCEPT !.op = "getBalance", !.pc = "getAccountInfo",
                                   !.address = address]]
    /\ netlog' = [netlog EXCEPT ![c] =
                    Issued(@, "getAccountInfo",
                           GetAccountInfoRequestV1(AccountAddress(address)))]
    /\ UNCHANGED <<client, backend, responses, signlog, transport>>

\* getBalance(address): the X-Address check, then the account info request.
DefaultXpringClient_getBalance(c, address) ==
    /\ client = "DefaultXpringClient"
    /\ CanStart(c)
    /\ IF ~isValidXAddress(address)
       THEN /\ calls' = [calls EXCEPT ![c] =
                    [NoCall EXCEPT !.op = "getBalance", !.pc = "done",
                                   !.address = address,
                                   !.result = Rejected(Error(xAddressRequired))]]
            /\ UNCHANGED netlog
       ELSE /\ calls' = [calls EXCEPT ![c] =
                    [NoCall EXCEPT !.op = "getBalance", !.pc = "getAccountInfo",
                                   !.address = address]]
            /\ netlog' = [netlog EXCEPT ![c] =
                    Issued(@, "getAccountInfo",
                           GetAccountInfoRequestV1(AccountAddress(address)))]
    /\ UNCHANGED <<client, backend, responses, signlog, transport>>

\* The awaited account info request settles.
DefaultXpringClient_getBalance_settled(c, settled) ==
    /\ client = "DefaultXpringClient"
    /\ calls[c].op = "getBalance"
    /\ calls[c].pc = "getAccountInfo"
    /\ calls' = [calls EXCEPT ![c].pc = "done",
                     ![c].result =
                         IF settled.state = "rejected"
                         THEN settled
                         ELSE DefaultXpringClient_getBalance_await(settled.value)]
    /\ netlog' = [netlog EXCEPT ![c] = Settled(@, settled)]
    /\ UNCHANGED <<client, backend, responses, signlog, transport>>

\* The stubs: each throws at once, whatever its arguments.
DefaultXpringClient_getTransactionStatus(c) ==
    /\ client = "DefaultXpringClient"
    /\ CanStart(c)
    /\ calls' = [calls EXCEPT ![c] =
                    [NoCall EXCEPT !.op = "getTransactionStatus", !.pc = "done",
                                   !.result = DefaultXpringClient_unimplemented]]
    /\ UNCHANGED <<client, backend, responses, netlog, signlog, transport>>

\* A variant of the send stub that begins the pipeline with the fee request.
DefaultXpringClient_send_started(c, sender, amount, destination) ==
    /\ client = "DefaultXpringClient"
    /\ CanStart(c)
    /\ calls' = [calls EXCEPT ![c] =
                    [NoCall EXCEPT !.op = "send", !.pc = "done", !.sender = sender,
                                   !.amount = amount, !.destination = destination,
                                   !.result = DefaultXpringClient_unimplemented]]
    /\ netlog' = [netlog EXCEPT ![c] = Issued(@, "getFee", GetFeeRequestV1)]
    /\ UNCHANGED <<client, backend, responses, signlog, transport>>

DefaultXpringClient_send(c, sender, amount, destination) ==
    /\ client = "DefaultXpringClient"
    /\ CanStart(c)
    /\ calls' = [calls EXCEPT ![c] =
                    [NoCall EXCEPT !.op = "send", !.pc = "done", !.sender = sender,
                                   !.amount = amount, !.destination = destination,
                                   !.result = DefaultXpringClient_unimplemented]]
    /\ UNCHANGED <<client, backend, responses, netlog, signlog, transport>>

DefaultXpringClient_getLastValidatedLedgerSequence(c) ==
    /\ client = "DefaultXpringClient"
    /\ CanStart(c)
    /\ calls' = [calls EXCEPT ![c] =
                    [NoCall EXCEPT !.op = "getLastValidatedLedgerSequence", !.pc = "done",
                                   !.result = DefaultXpringClient_unimplemented]]
    /\ UNCHANGED <<client, backend, responses, netlog, signlog, transport>>

DefaultXpringClient_getRawTransactionStatus(c) ==
    /\ client = "DefaultXpringClient"
    /\ CanStart(c)
    /\ calls' = [calls EXCEPT ![c] =
                    [NoCall EXCEPT !.op = "getRawTransactionStatus", !.pc = "done",
                                   !.result = DefaultXpringClient_unimplemented]]
    /\ UNCHANGED <<client, backend, responses, netlog, signlog, transport>>

\* getFee(): the fee request.
DefaultXpringClient_getFee(c) ==
    /\ client = "DefaultXpringClient"
    /\ CanStart(c)
    /\ calls' = [calls EXCEPT ![c] = [NoCall EXCEPT !.op = "getFee", !.pc = "getFee"]]
    /\ netlog' = [netlog EXCEPT ![c] = Issued(@, "getFee", GetFeeRequestV1)]
    /\ UNCHANGED <<client, backend, responses, signlog, transport>>

\* The awaited fee request settles.
DefaultXpringClient_getFee_settled(c, settled) ==
    /\ client = "DefaultXpringClient"
    /\ calls[c].op = "getFee"
    /\ calls[c].pc = "getFee"
    /\ calls' = [calls EXCEPT ![c].pc = "done",
                     ![c].result =
                         IF settled.state = "rejected"
                         THEN settled
                         ELSE DefaultXpringClient_getFee_await(settled.value)]
    /\ netlog' = [netlog EXCEPT ![c] = Settled(@, settled)]
    /\ UNCHANGED <<client, backend, responses, signlog, transport>>

\* ------------------------------------------------------- the specification

\* ------------------------------------- FakeLegacyNetworkClient (actions)

\* Each operation returns a promise that is settled already.

FakeLegacyNetworkClient_getAccountInfo_called(c) ==
    /\ client = "none"
    /\ backend = "FakeLegacyNetworkClient"
    /\ CanStart(c)
    /\ calls' = [calls EXCEPT ![c] =
            [NoCall EXCEPT !.op = "getAccountInfo", !.pc = "done",
                           !.result = FakeLegacyNetworkClient_getAccountInfo(responses)]]
    /\ UNCHANGED <<client, backend, responses, netlog, signlog, transport>>

\* A variant of the call of getFee that uses its response up: the next call is
\* answered with the default fee.
FakeLegacyNetworkClient_getFee_called_consuming(c) ==
    /\ client = "none"
    /\ backend = "FakeLegacyNetworkClient"
    /\ CanStart(c)
    /\ calls' = [calls EXCEPT ![c] =
            [NoCall EXCEPT !.op = "getFee", !.pc = "done",
                           !.result = FakeLegacyNetworkClient_getFee(responses)]]
    /\ responses' = [responses EXCEPT !.getFeeResponse = defaultFeeResponse]
    /\ UNCHANGED <<client, backend, netlog, signlog, transport>>

FakeLegacyNetworkClient_getFee_called(c) ==
    /\ client = "none"
    /\ backend = "FakeLegacyNetworkClient"
    /\ CanStart(c)
    /\ calls' = [calls EXCEPT ![c] =
            [NoCall EXCEPT !.op = "getFee", !.pc = "done",
                           !.result = FakeLegacyNetworkClient_getFee(responses)]]
    /\ UNCHANGED <<client, backend, responses, netlog, signlog, transport>>

FakeLegacyNetworkClient_submitSignedTransaction_called(c) ==
    /\ client = "none"
    /\ backend = "FakeLegacyNetworkClient"
    /\ CanStart(c)
    /\ calls' = [calls EXCEPT ![c] =
            [NoCall EXCEPT !.op = "submitSignedTransaction", !.pc = "done",
                           !.result = FakeLegacyNetworkClient_submitSignedTransaction(responses)]]
    /\ UNCHANGED <<client, backend, responses, netlog, signlog, transport>>

FakeLegacyNetworkClient_getLatestValidatedLedgerSequence_called(c) ==
    /\ client = "none"
    /\ backend = "FakeLegacyNetworkClient"
    /\ CanStart(c)
    /\ calls' = [calls EXCEPT ![c] =
            [NoCall EXCEPT !.op = "getLatestValidatedLedgerSequence", !.pc = "done",
                           !.result =
                                FakeLegacyNetworkClient_getLatestValidatedLedgerSequence(
                                    responses)]]
    /\ UNCHANGED <<client, backend, responses, netlog, signlog, transport>>

FakeLegacyNetworkClient_getTransactionStatus_called(c) ==
    /\ client = "none"
    /\ backend = "FakeLegacyNetworkClient"
    /\ CanStart(c)
    /\ calls' = [calls EXCEPT ![c] =
            [NoCall EXCEPT !.op = "getTransactionStatus", !.pc = "done",
                           !.result = FakeLegacyNetworkClient_getTransactionStatus(responses)]]
    /\ UNCHANGED <<client, backend, responses, netlog, signlog, transport>>

\* ------------------------------------- LegacyGRPCNetworkClient (actions)

\* Each operation calls the stub once with a callback; the callback settles
\* the promise the operation returned.

LegacyGRPCNetworkClient_getAccountInfo_called(c) ==
    /\ client = "none"
    /\ backend = "LegacyGRPCNetworkClient"
    /\ CanStart(c)
    /\ calls' = [calls EXCEPT ![c] =
            [NoCall EXCEPT !.op = "getAccountInfo", !.pc = "transport"]]
    /\ transport' = [transport EXCEPT ![c] =
            Called(@, "getAccountInfo",
                   GetAccountInfoRequest("XVYUQ3SdUcVnaTNVanDYo1NamrUukPUPeoGMnmvkEExbtrj"))]
    /\ UNCHANGED <<client, backend, responses, netlog, signlog>>

LegacyGRPCNetworkClient_getAccountInfo_callback(c, error, response) ==
    /\ client = "none"
    /\ backend = "LegacyGRPCNetworkClient"
    /\ calls[c].op = "getAccountInfo"
    /\ calls[c].pc = "transport"
    /\ calls' = [calls EXCEPT ![c].pc = "done",
                              ![c].result =
                                  LegacyGRPCNetworkClient_getAccountInfo(error, response)]
    /\ transport' = [transport EXCEPT ![c] = CalledBack(@, error, response)]
    /\ UNCHANGED <<client, backend, responses, netlog, signlog>>

LegacyGRPCNetworkClient_getFee_called(c) ==
    /\ client = "none"
    /\ backend = "LegacyGRPCNetworkClient"
    /\ CanStart(c)
    /\ calls' = [calls EXCEPT ![c] =
            [NoCall EXCEPT !.op = "getFee", !.pc = "transport"]]
    /\ transport' = [transport EXCEPT ![c] =
            Called(@, "getFee", GetFeeRequest)]
    /\ UNCHANGED <<client, backend, responses, netlog, signlog>>

LegacyGRPCNetworkClient_getFee_callback(c, error, response) ==
    /\ client = "none"
    /\ backend = "LegacyGRPCNetworkClient"
    /\ calls[c].op = "getFee"
    /\ calls[c].pc = "transport"
    /\ calls' = [calls EXCEPT ![c].pc = "done",
                              ![c].result =
                                  LegacyGRPCNetworkClient_getFee(error, response)]
    /\ transport' = [transport EXCEPT ![c] = CalledBack(@, error, response)]
    /\ UNCHANGED <<client, backend, responses, netlog, signlog>>

LegacyGRPCNetworkClient_submitSignedTransaction_called(c) ==
    /\ client = "none"
    /\ backend = "LegacyGRPCNetworkClient"
    /\ CanStart(c)
    /\ calls' = [calls EXCEPT ![c] =
            [NoCall EXCEPT !.op = "submitSignedTransaction", !.pc = "transport"]]
    /\ transport' = [transport EXCEPT ![c] =
            Called(@, "submitSignedTransaction",
                   SubmitSignedTransactionRequest(Str(Units("DEADBEEF"))))]
    /\ UNCHANGED <<client, backend, responses, netlog, signlog>>

LegacyGRPCNetworkClient_submitSignedTransaction_callback(c, error, response) ==
    /\ client = "none"
    /\ backend = "LegacyGRPCNetworkClient"
    /\ calls[c].op = "submitSignedTransaction"
    /\ calls[c].pc = "transport"
    /\ calls' = [calls EXCEPT ![c].pc = "done",
                              ![c].result =
                                  LegacyGRPCNetworkClient_submitSignedTransaction(error, response)]
    /\ transport' = [transport EXCEPT ![c] = CalledBack(@, error, response)]
    /\ UNCHANGED <<client, backend, responses, netlog, signlog>>

LegacyGRPCNetworkClient_getLatestValidatedLedgerSequence_called(c) ==
    /\ client = "none"
    /\ backend = "LegacyGRPCNetworkClient"
    /\ CanStart(c)
    /\ calls' = [calls EXCEPT ![c] =
            [NoCall EXCEPT !.op = "getLatestValidatedLedgerSequence", !.pc = "transport"]]
    /\ transport' = [transport EXCEPT ![c] =
            Called(@, "getLatestValidatedLedgerSequence", GetLatestValidatedLedgerSequenceRequest)]
    /\ UNCHANGED <<client, backend, responses, netlog, signlog>>

LegacyGRPCNetworkClient_getLatestValidatedLedgerSequence_callback(c, error, response) ==
    /\ client = "none"
    /\ backend = "LegacyGRPCNetworkClient"
    /\ calls[c].op = "getLatestValidatedLedgerSequence"
    /\ calls[c].pc = "transport"
    /\ calls' = [calls EXCEPT ![c].pc = "done",
                              ![c].result =
                                  LegacyGRPCNetworkClient_getLatestValidatedLedgerSequence(
                                      error, response)]
    /\ transport' = [transport EXCEPT ![c] = CalledBack(@, error, response)]
    /\ UNCHANGED <<client, backend, responses, netlog, signlog>>

LegacyGRPCNetworkClient_getTransactionStatus_called(c) ==
    /\ client = "none"
    /\ backend = "LegacyGRPCNetworkClient"
    /\ CanStart(c)
    /\ calls' = [calls EXCEPT ![c] =
            [NoCall EXCEPT !.op = "getTransactionStatus", !.pc = "transport"]]
    /\ transport' = [transport EXCEPT ![c] =
            Called(@, "getTransactionStatus", GetTransactionStatusRequest("DEADBEEF"))]
    /\ UNCHANGED <<client, backend, responses, netlog, signlog>>

LegacyGRPCNetworkClient_getTransactionStatus_callback(c, error, response) ==
    /\ client = "none"
    /\ backend = "LegacyGRPCNetworkClient"
    /\ calls[c].op = "getTransactionStatus"
    /\ calls[c].pc = "transport"
    /\ calls' = [calls EXCEPT ![c].pc = "done",
                              ![c].result =
                                  LegacyGRPCNetworkClient_getTransactionStatus(error, response)]
    /\ transport' = [transport EXCEPT ![c] = CalledBack(@, error, response)]
    /\ UNCHANGED <<client, backend, responses, netlog, signlog>>

\* ------------------------------------------- GRPCNetworkClient (actions)

GRPCNetworkClient_getAccountInfo_called(c) ==
    /\ client = "none"
    /\ backend = "GRPCNetworkClient"
    /\ CanStart(c)
    /\ calls' = [calls EXCEPT ![c] =
            [NoCall EXCEPT !.op = "getAccountInfo", !.pc = "transport"]]
    /\ transport' = [transport EXCEPT ![c] =
            Called(@, "getAccountInfo",
                   GetAccountInfoRequest("XVYUQ3SdUcVnaTNVanDYo1NamrUukPUPeoGMnmvkEExbtrj"))]
    /\ UNCHANGED <<client, backend, responses, netlog, signlog>>

GRPCNetworkClient_getAccountInfo_callback(c, error, response) ==
    /\ client = "none"
    /\ backend = "GRPCNetworkClient"
    /\ calls[c].op = "getAccountInfo"
    /\ calls[c].pc = "transport"
    /\ calls' = [calls EXCEPT ![c].pc = "done",
                              ![c].result =
                                  GRPCNetworkClient_getAccountInfo(error, response)]
    /\ transport' = [transport EXCEPT ![c] = CalledBack(@, error, response)]
    /\ UNCHANGED <<client, backend, responses, netlog, signlog>>

GRPCNetworkClient_injectOperation_called(c) ==
    /\ client = "none"
    /\ backend = "GRPCNetworkClient"
    /\ CanStart(c)
    /\ calls' = [calls EXCEPT ![c] =
            [NoCall EXCEPT !.op = "injectOperation", !.pc = "transport"]]
    /\ transport' = [transport EXCEPT ![c] =
            Called(@, "inject", InjectionRequest("payment"))]
    /\ UNCHANGED <<client, backend, responses, netlog, signlog>>

GRPCNetworkClient_injectOperation_callback(c, error, response) ==
    /\ client = "none"
    /\ backend = "GRPCNetworkClient"
    /\ calls[c].op = "injectOperation"
    /\ calls[c].pc = "transport"
    /\ calls' = [calls EXCEPT ![c].pc = "done",
                              ![c].result =
                                  GRPCNetworkClient_injectOperation(error, response)]
    /\ transport' = [transport EXCEPT ![c] = CalledBack(@, error, response)]
    /\ UNCHANGED <<client, backend, responses, netlog, signlog>>


Next ==
    \E c \in CallIds :
        \/ \E a \in QueriedAddresses : XpringClient_getBalance(c, a)
        \/ \E o \in getAccountInfoOutcomes : XpringClient_getBalance_settled(c, o)
        \/ \E w \in Wallets, a \in Amounts, d \in Destinations :
                XpringClient_send(c, w, a, d)
        \/ \E o \in getFeeOutcomes : XpringClient_getFee_settled(c, o)
        \/ XpringClient_send_getAccountInfo(c)
        \/ \E o \in getAccountInfoOutcomes, b \in SignerBehaviours :
                XpringClient_getAccountInfo_settled(c, o, b)
        \/ \E o \in submitSignedTransactionOutcomes :
                XpringClient_submitSignedTransaction_settled(c, o)
        \/ \E a \in QueriedAddresses : DefaultXpringClient_getBalance(c, a)
        \/ \E o \in getAccountInfoOutcomes : DefaultXpringClient_getBalance_settled(c, o)
        \/ DefaultXpringClient_getTransactionStatus(c)
        \/ \E w \in Wallets, a \in Amounts, d \in Destinations :
                DefaultXpringClient_send(c, w, a, d)
        \/ DefaultXpringClient_getLastValidatedLedgerSequence(c)
        \/ DefaultXpringClient_getRawTransactionStatus(c)
        \/ DefaultXpringClient_getFee(c)
        \/ \E o \in getFeeOutcomes : DefaultXpringClient_getFee_settled(c, o)
        \/ FakeLegacyNetworkClient_getAccountInfo_called(c)
        \/ FakeLegacyNetworkClient_getFee_called(c)
        \/ FakeLegacyNetworkClient_submitSignedTransaction_called(c)
        \/ FakeLegacyNetworkClient_getLatestValidatedLedgerSequence_called(c)
        \/ FakeLegacyNetworkClient_getTransactionStatus_called(c)
        \/ LegacyGRPCNetworkClient_getAccountInfo_called(c)
        \/ \E error \in CallbackErrors,
              response \in CallbackResponses(AccountInfo(XRPAmount("4000"), Num(12))) :
                LegacyGRPCNetworkClient_getAccountInfo_callback(c, error, response)
        \/ LegacyGRPCNetworkClient_getFee_called(c)
        \/ \E error \in CallbackErrors,
              response \in CallbackResponses(Fee(XRPAmount("10"))) :
                LegacyGRPCNetworkClient_getFee_callback(c, error, response)
        \/ LegacyGRPCNetworkClient_submitSignedTransaction_called(c)
        \/ \E error \in CallbackErrors,
              response \in CallbackResponses(defaultSubmitSignedTransactionResponse) :
                LegacyGRPCNetworkClient_submitSignedTransaction_callback(c, error, response)
        \/ LegacyGRPCNetworkClient_getLatestValidatedLedgerSequence_called(c)
        \/ \E error \in CallbackErrors,
              response \in CallbackResponses(defaultLedgerSequenceResponse) :
                LegacyGRPCNetworkClient_getLatestValidatedLedgerSequence_callback(
                    c, error, response)
        \/ LegacyGRPCNetworkClient_getTransactionStatus_called(c)
        \/ \E error \in CallbackErrors,
              response \in CallbackResponses(defaultTransactionStatusResponse) :
                LegacyGRPCNetworkClient_getTransactionStatus_callback(c, error, response)
        \/ GRPCNetworkClient_getAccountInfo_called(c)
        \/ \E error \in CallbackErrors,
              response \in CallbackResponses(
                            GetAccountInfoResponse(AccountRoot(Str(Units("4000"))))) :
                GRPCNetworkClient_getAccountInfo_callback(c, error, response)
        \/ GRPCNetworkClient_injectOperation_called(c)
        \/ \E error \in CallbackErrors,
              response \in CallbackResponses(InjectionResponse("ok")) :
                GRPCNetworkClient_injectOperation_callback(c, error, response)

Spec == Init /\ [][Next]_vars

\* --------------------------------------------- backend calls that settle

\* The promise of the NetworkClient call that invocation c of a client
\* operation waits for settles, and the callback waiting for it runs.
BackendCallSettles(c) ==
    \/ \E o \in getAccountInfoOutcomes : XpringClient_getBalance_settled(c, o)
    \/ \E o \in getFeeOutcomes : XpringClient_getFee_settled(c, o)
    \/ \E o \in getAccountInfoOutcomes, b \in SignerBehaviours :
            XpringClient_getAccountInfo_settled(c, o, b)
    \/ \E o \in submitSignedTransactionOutcomes :
            XpringClient_submitSignedTransaction_settled(c, o)
    \/ \E o \in getAccountInfoOutcomes : DefaultXpringClient_getBalance_settled(c, o)
    \/ \E o \in getFeeOutcomes : DefaultXpringClient_getFee_settled(c, o)

\* The arguments of the operations invoked here: one valid X-Address and one
\* string that is no address.
SettlingAddresses == {"X7cBcY4bdTTzk3LHmrKAK6GyrirkXfLHGFxzke5zTmYMfw4", "xrp"}
SettlingDestinations == {"X7cBcY4bdTTzk3LHmrKAK6GyrirkXfLHGFxzke5zTmYMfw4"}

InitSettling ==
    /\ Init
    /\ client # "none"

\* The operations of the two clients, and the settling of their NetworkClient
\* calls with every outcome of the backend.
NextSettling ==
    \E c \in CallIds :
        \/ \E a \in SettlingAddresses : XpringClient_getBalance(c, a)
        \/ \E w \in Wallets, a \in Amounts, d \in SettlingDestinations :
                XpringClient_send(c, w, a, d)
        \/ \E a \in SettlingAddresses : DefaultXpringClient_getBalance(c, a)
        \/ DefaultXpringClient_getTransactionStatus(c)
        \/ \E w \in Wallets, a \in Amounts, d \in SettlingDestinations :
                DefaultXpringClient_send(c, w, a, d)
        \/ DefaultXpringClient_getLastValidatedLedgerSequence(c)
        \/ DefaultXpringClient_getRawTransactionStatus(c)
        \/ DefaultXpringClient_getFee(c)
        \/ BackendCallSettles(c)
        \/ XpringClient_send_getAccountInfo(c)

\* The program when every NetworkClient call a client operation makes is
\* answered in the end, with a response or with an error, and the job queue
\* runs a callback that is ready.
SpecSettling ==
    /\ InitSettling
    /\ [][NextSettling]_vars
    /\ \A c \in CallIds : WF_vars(BackendCallSettles(c))
    /\ \A c \in CallIds : WF_vars(XpringClient_send_getAccountInfo(c))

\* ------------------------------------------ a ledger whose values change

\* The fee and the sequence the remote ledger answers with change from one
\* request to the next: XpringClient over LegacyGRPCNetworkClient, every request
\* answered, the Signer signing.
ChangingFees == {Fee(XRPAmount("10")), Fee(XRPAmount("12"))}
ChangingAccountInfos ==
    {AccountInfo(XRPAmount("4000"), Num(12)), AccountInfo(XRPAmount("3990"), Num(13))}

InitChangingLedger ==
    /\ Init
    /\ client = "XpringClient"
    /\ backend = "LegacyGRPCNetworkClient"

NextChangingLedger ==
    \E c \in CallIds :
        \/ \E a \in ValidXAddresses : XpringClient_getBalance(c, a)
        \/ \E r \in ChangingAccountInfos :
                XpringClient_getBalance_settled(c,
                    LegacyGRPCNetworkClient_getAccountInfo(Null, r))
        \/ \E w \in Wallets, a \in Amounts, d \in Destinations :
                XpringClient_send(c, w, a, d)
        \/ \E r \in ChangingFees :
                XpringClient_getFee_settled(c, LegacyGRPCNetworkClient_getFee(Null, r))
        \/ XpringClient_send_getAccountInfo(c)
        \/ \E r \in ChangingAccountInfos :
                XpringClient_getAccountInfo_settled(c,
                    LegacyGRPCNetworkClient_getAccountInfo(Null, r), "signs")
        \/ \E r \in SubmitResponses :
                XpringClient_submitSignedTransaction_settled(c,
                    LegacyGRPCNetworkClient_submitSignedTransaction(Null, r))

SpecChangingLedger == InitChangingLedger /\ [][NextChangingLedger]_vars

\* ------------------------------------------------------------------ claims

\* sub occurs in the string s.
Contains(s, sub) ==
    \E i \in 1..(Len(s) - Len(sub) + 1) : SubSeq(s, i, i + Len(sub) - 1) = sub

\* The i-th NetworkClient call of invocation c was op and its promise resolved.
NetFulfilled(c, i, op) ==
    /\ Len(netlog[c]) >= i
    /\ netlog[c][i].op = op
    /\ netlog[c][i].settled.state = "fulfilled"

\* The value the i-th NetworkClient call of invocation c resolved with.
NetValue(c, i) == netlog[c][i].settled.value

\* Invocation c is a send of XpringClient whose fee lookup, account info lookup
\* and signing succeeded and whose submit request resolved.
SendPipelineSucceeded(c) ==
    /\ client = "XpringClient"
    /\ calls[c].op = "send"
    /\ NetFulfilled(c, 1, "getFee")
    /\ ~LooseNullish(getAmount(NetValue(c, 1)))
    /\ NetFulfilled(c, 2, "getAccountInfo")
    /\ ~LooseNullish(getSequence(NetValue(c, 2)))
    /\ Len(signlog[c]) = 1
    /\ ~signlog[c][1].outcome.threw
    /\ ~LooseNullish(signlog[c][1].outcome.value)
    /\ NetFulfilled(c, 3, "submitSignedTransaction")

\* C1: when the fee lookup, the account info lookup and the Signer succeed and
\* submitSignedTransaction resolves with R, send resolves with exactly R.
C1_SendResolvesWithSubmitResponse ==
    \A c \in CallIds :
        SendPipelineSucceeded(c) =>
            /\ calls[c].pc = "done"
            /\ calls[c].result = Resolved(NetValue(c, 3))

\* A send resolved with a response that reports the transaction as not applied.
C1_Witness ==
    \E c \in CallIds :
        /\ SendPipelineSucceeded(c)
        /\ calls[c].result.state = "fulfilled"
        /\ calls[c].result.value.engineResult = "tecUNFUNDED_PAYMENT"
        /\ calls[c].result.value.transactionBlob = "CAFE"

\* Invocation c of XpringClient was given an address that fails the format check.
XpringClientAddressInvalid(c) ==
    /\ client = "XpringClient"
    /\ \/ calls[c].op = "getBalance" /\ ~isValidAddress(calls[c].address)
       \/ /\ calls[c].op = "send"
          /\ \/ ~isValidAddress(calls[c].destination)
             \/ ~isValidAddress(getAddress(calls[c].sender))

\* C2: a send or getBalance of XpringClient with an address that fails the
\* format check calls no NetworkClient operation and never resolves.
C2_InvalidAddressCallsNoBackend ==
    \A c \in CallIds :
        XpringClientAddressInvalid(c) =>
            /\ netlog[c] = <<>>
            /\ calls[c].result.state # "fulfilled"

\* C3: DefaultXpringClient.getBalance of an address that is no X-Address is
\* rejected with the X-Address error and never calls getAccountInfo.
C3_DefaultGetBalanceRejectsNonXAddress ==
    \A c \in CallIds :
        (/\ client = "DefaultXpringClient"
         /\ calls[c].op = "getBalance"
         /\ ~isValidXAddress(calls[c].address)) =>
            /\ calls[c].pc = "done"
            /\ calls[c].result = Rejected(Error(xAddressRequired))
            /\ netlog[c] = <<>>

\* getBalance of a classic address was rejected by DefaultXpringClient.
C3_Witness ==
    \E c \in CallIds :
        /\ client = "DefaultXpringClient"
        /\ calls[c].op = "getBalance"
        /\ calls[c].address \in ClassicAddresses
        /\ calls[c].result.state = "rejected"

\* The Signer threw in invocation c.
SignerThrew(c) ==
    /\ client = "XpringClient"
    /\ calls[c].op = "send"
    /\ Len(signlog[c]) >= 1
    /\ signlog[c][1].outcome.threw

\* C4: when the Signer throws an error with message M, send is rejected with an
\* error whose message holds the signing failure text and M.
C4_SignerThrowIsWrapped ==
    \A c \in CallIds :
        SignerThrew(c) =>
            /\ calls[c].pc = "done"
            /\ calls[c].result.state = "rejected"
            /\ calls[c].result.value.kind = "Error"
            /\ Contains(calls[c].result.value.message, signingFailure)
            /\ Contains(calls[c].result.value.message,
                        signlog[c][1].outcome.value.message)

\* A send whose Signer threw has failed.
C4_Witness ==
    \E c \in CallIds :
        /\ SignerThrew(c)
        /\ calls[c].result =
              Rejected(Error("Unable to sign the transaction. Invalid private key"))

\* The Signer returned nothing in invocation c.
SignerReturnedNothing(c) ==
    /\ client = "XpringClient"
    /\ calls[c].op = "send"
    /\ Len(signlog[c]) >= 1
    /\ ~signlog[c][1].outcome.threw
    /\ LooseNullish(signlog[c][1].outcome.value)

\* C5: when the Signer returns no signed transaction, send is rejected with
\* exactly the signing failure message and nothing is submitted.
C5_SignerReturningNothingFails ==
    \A c \in CallIds :
        SignerReturnedNothing(c) =>
            /\ calls[c].pc = "done"
            /\ calls[c].result = Rejected(Error(signingFailure))
            /\ \A i \in 1..Len(netlog[c]) : netlog[c][i].op # "submitSignedTransaction"

\* A send whose Signer returned nothing has failed.
C5_Witness ==
    \E c \in CallIds :
        /\ SignerReturnedNothing(c)
        /\ calls[c].result.state = "rejected"

\* The fee response lacks the fee amount.
FeeAmountAbsent(response) ==
    IF response.kind = "GetFeeResponse"
    THEN IF getDrops(response) = Undefined
         THEN TRUE
         ELSE getMinimumFee(getDrops(response)) = Undefined
    ELSE getAmount(response) = Undefined

\* The fee lookup of invocation c resolved with a response without a fee amount.
FeeLookupLacksAmount(c) ==
    /\ calls[c].op \in {"send", "getFee"}
    /\ NetFulfilled(c, 1, "getFee")
    /\ FeeAmountAbsent(NetValue(c, 1))

\* C6: when the getFee response lacks the fee amount, the fee lookup (in
\* XpringClient.send, and DefaultXpringClient.getFee) fails with the malformed
\* response error.
C6_FeeWithoutAmountIsMalformed ==
    \A c \in CallIds :
        FeeLookupLacksAmount(c) =>
            /\ calls[c].pc = "done"
            /\ calls[c].result = Rejected(Error(malformedResponse))

\* A send of XpringClient met a fee response without an amount.
C6_Witness ==
    \E c \in CallIds :
        /\ client = "XpringClient"
        /\ FeeLookupLacksAmount(c)
        /\ calls[c].result.state = "rejected"

\* The account info lookup of send c resolved with no sequence number.
SequenceAbsent(c) ==
    /\ client = "XpringClient"
    /\ calls[c].op = "send"
    /\ NetFulfilled(c, 1, "getFee")
    /\ NetFulfilled(c, 2, "getAccountInfo")
    /\ getSequence(NetValue(c, 2)) = Undefined

\* C7: when getFee succeeds and the account info lacks a sequence number, send
\* has failed with the malformed response error (it is not pending, and nothing
\* was signed).
C7_AccountInfoWithoutSequenceIsMalformed ==
    \A c \in CallIds :
        SequenceAbsent(c) =>
            /\ calls[c].pc = "done"
            /\ calls[c].result = Rejected(Error(malformedResponse))
            /\ signlog[c] = <<>>

\* A send met an account info without a sequence number.
C7_Witness ==
    \E c \in CallIds :
        /\ SequenceAbsent(c)
        /\ calls[c].result.state = "rejected"

\* C8: when a NetworkClient call rejects with E, the operation that made it is
\* rejected with the same E.
C8_BackendErrorPropagatesUnchanged ==
    \A c \in CallIds :
        \A i \in 1..Len(netlog[c]) :
            netlog[c][i].settled.state = "rejected" =>
                /\ calls[c].pc = "done"
                /\ calls[c].result = Rejected(netlog[c][i].settled.value)

\* Each of the three NetworkClient calls of XpringClient has rejected with the
\* transport's error in some invocation (here: the submit request).
C8_Witness ==
    \E c \in CallIds :
        /\ client = "XpringClient"
        /\ Len(netlog[c]) = 3
        /\ netlog[c][3].settled = Rejected(ServiceError)
        /\ calls[c].result = Rejected(ServiceError)

\* The public operations of the clients.
PublicOperations ==
    {"getBalance", "send", "getTransactionStatus", "getLastValidatedLedgerSequence",
     "getRawTransactionStatus"}

\* Invocation c was given well-formed addresses.
ValidArguments(c) ==
    CASE calls[c].op = "getBalance" -> isValidXAddress(calls[c].address)
      [] calls[c].op = "send" -> isValidXAddress(calls[c].destination)
      [] OTHER -> TRUE

\* C9: with the all-failure backend, every public operation called with valid
\* arguments fails with the configured error.
C9_AllFailureBackendFailsWithConfiguredError ==
    (backend = "FakeLegacyNetworkClient" /\ responses = defaultErrorResponses) =>
        \A c \in CallIds :
            (/\ calls[c].pc = "done"
             /\ calls[c].op \in PublicOperations
             /\ ValidArguments(c)) =>
                calls[c].result = Rejected(defaultError)

\* The balance strings of the model that are numerals, with the number each
\* stands for: in decimal, signed or not, within white space (the space, a
\* vertical tab, a line separator and an ideographic space), or in hexadecimal.
Numerals ==
    {<<Units("4000"), 4000>>, <<Units("0"), 0>>, <<Units("-5"), 0 - 5>>,
     <<Units("+7"), 7>>, <<Units(" 42 "), 42>>, <<Units("0x10"), 16>>,
     <<<<11>> \o Units("42"), 42>>, <<Units("7") \o <<8232, 12288>>, 7>>}

\* The account info carries a balance: an amount, or for DefaultXpringClient a
\* string that is a numeral.
CarriesBalance(accountInfo) ==
    IF accountInfo.kind = "GetAccountInfoResponse"
    THEN IF getAccountData(accountInfo) = Undefined
         THEN FALSE
         ELSE \E n \in Numerals : getBalance(getAccountData(accountInfo)) = Str(n[1])
    ELSE getBalance(accountInfo) \notin {Undefined, Null}

\* The number of drops a balance string of the model stands for.
DropsOf(balance) == (CHOOSE n \in Numerals : balance = Str(n[1]))[2]

\* The balance getBalance is to resolve with: the account info's own balance, which
\* DefaultXpringClient hands back as an integer.
BalanceOf(accountInfo) ==
    IF accountInfo.kind = "GetAccountInfoResponse"
    THEN [kind |-> "bigint", value |-> DropsOf(getBalance(getAccountData(accountInfo)))]
    ELSE getBalance(accountInfo)

\* Invocation c is a getBalance of a valid address whose account info carries a
\* balance.
BalanceLookupSucceeded(c) ==
    /\ calls[c].op = "getBalance"
    /\ isValidAddress(calls[c].address)
    /\ NetFulfilled(c, 1, "getAccountInfo")
    /\ CarriesBalance(NetValue(c, 1))

\* C10: getBalance of a valid address resolves with exactly the balance of the
\* account info the backend resolved with, after one getAccountInfo call and no
\* other backend call.
C10_GetBalanceResolvesWithBalance ==
    \A c \in CallIds :
        BalanceLookupSucceeded(c) =>
            /\ calls[c].pc = "done"
            /\ calls[c].result = Resolved(BalanceOf(NetValue(c, 1)))
            /\ Len(netlog[c]) = 1

\* getBalance against the default fake resolved with its 4000 drops.
C10_Witness ==
    \E c \in CallIds :
        /\ BalanceLookupSucceeded(c)
        /\ backend = "FakeLegacyNetworkClient"
        /\ responses = defaultSuccessfulResponses
        /\ calls[c].result = Resolved(XRPAmount("4000"))

\* The account info carries no balance: absent as undefined or as null, or (rpc/v1)
\* the account data itself is absent.
BalanceAbsent(accountInfo) ==
    IF accountInfo.kind = "GetAccountInfoResponse"
    THEN IF getAccountData(accountInfo) = Undefined
         THEN TRUE
         ELSE LooseNullish(getBalance(getAccountData(accountInfo)))
    ELSE LooseNullish(getBalance(accountInfo))

\* C11: a getBalance whose account info request resolved with a response that
\* carries no balance (absent as null or as undefined, or without account data)
\* fails with "Malformed Response." and does not resolve.
C11_AbsentBalanceIsMalformed ==
    \A c \in CallIds :
        (/\ calls[c].op = "getBalance"
         /\ client # "none"
         /\ NetFulfilled(c, 1, "getAccountInfo")
         /\ BalanceAbsent(NetValue(c, 1)))
            => /\ calls[c].pc = "done"
               /\ calls[c].result = Rejected(Error(malformedResponse))

\* Invocation c is a finished send of XpringClient over the fake backend with the
\* default successful responses, in which the Signer did not fail.
DefaultFakeSendDone(c) ==
    /\ client = "XpringClient"
    /\ backend = "FakeLegacyNetworkClient"
    /\ responses \in {defaultSuccessfulResponses,
                      WithSequenceReadAsZero(defaultSuccessfulResponses)}
    /\ calls[c].op = "send"
    /\ calls[c].pc = "done"
    /\ ~SignerThrew(c)
    /\ ~SignerReturnedNothing(c)

\* C12 as stated: against the default successful fake backend send resolves with
\* engineResult "tesSUCCESS" and blob "DEADBEEF", and the transaction handed to the
\* Signer carries fee 10 and sequence 12.
C12_DefaultFakeSendCarriesSequence12 ==
    \A c \in CallIds :
        DefaultFakeSendDone(c) =>
            /\ calls[c].result.state = "fulfilled"
            /\ calls[c].result.value.engineResult = "tesSUCCESS"
            /\ calls[c].result.value.transactionBlob = "DEADBEEF"
            /\ Len(signlog[c]) = 1
            /\ signlog[c][1].transaction.fee = XRPAmount("10")
            /\ signlog[c][1].transaction.sequence = Num(12)

\* C12, amended: the default account info sets no sequence (12 is the default
\* ledger sequence).  Where the unset sequence reads as undefined, send fails with
\* "Malformed Response." after the fee and account info lookups and the Signer is
\* not invoked; where it reads as 0, the Signer is handed one transaction with fee
\* 10 and sequence 0 and send resolves with the default submit response
\* (engineResult "tesSUCCESS", blob "DEADBEEF").
C12_DefaultFakeSend ==
    \A c \in CallIds :
        DefaultFakeSendDone(c) =>
            IF LooseNullish(getSequence(responses.getAccountInfoResponse))
            THEN /\ calls[c].result = Rejected(Error(malformedResponse))
                 /\ signlog[c] = <<>>
                 /\ Len(netlog[c]) = 2
            ELSE /\ Len(signlog[c]) = 1
                 /\ signlog[c][1].transaction.fee = XRPAmount("10")
                 /\ signlog[c][1].transaction.sequence = Num(0)
                 /\ calls[c].result = Resolved(defaultSubmitSignedTransactionResponse)
                 /\ calls[c].result.value.engineResult = "tesSUCCESS"
                 /\ calls[c].result.value.transactionBlob = "DEADBEEF"

\* A send against the default successful fake resolved with tesSUCCESS / DEADBEEF
\* after the Signer was handed a transaction with fee 10.
C12_Witness ==
    \E c \in CallIds :
        /\ DefaultFakeSendDone(c)
        /\ calls[c].amount = XRPAmount("1")
        /\ calls[c].result.state = "fulfilled"
        /\ calls[c].result.value.engineResult = "tesSUCCESS"
        /\ calls[c].result.value.transactionBlob = "DEADBEEF"
        /\ signlog[c][1].transaction.fee = XRPAmount("10")

\* How often invocation c called the operation op of its NetworkClient.
NetCount(c, op) == Cardinality({i \in 1..Len(netlog[c]) : netlog[c][i].op = op})

\* Nothing failed in the finished send c: the network client has the operations
\* of the pipeline, no NetworkClient call of the send was rejected, the responses
\* carried the fee amount and the sequence, and the Signer signed.
SendMetNoFailure(c) ==
    /\ client = "XpringClient"
    /\ calls[c].op = "send"
    /\ calls[c].pc = "done"
    /\ "getFee" \in XpringClient_networkClient_operations
    /\ \A i \in 1..Len(netlog[c]) : netlog[c][i].settled.state = "fulfilled"
    /\ ~FeeLookupLacksAmount(c)
    /\ ~SequenceAbsent(c)
    /\ ~SignerThrew(c)
    /\ ~SignerReturnedNothing(c)

\* Invocations c and d were given the same arguments.
SameInputs(c, d) ==
    /\ calls[c].op = calls[d].op
    /\ calls[c].sender = calls[d].sender
    /\ calls[c].amount = calls[d].amount
    /\ calls[c].destination = calls[d].destination

\* C13: of two sends with identical inputs in which nothing fails, each runs the
\* whole pipeline: each calls getFee, getAccountInfo and submitSignedTransaction
\* once (two submits in all), hands its transaction to the Signer, and resolves.
C13_NoDeduplication ==
    \A c, d \in CallIds :
        (c < d /\ SameInputs(c, d) /\ SendMetNoFailure(c) /\ SendMetNoFailure(d))
            => \A e \in {c, d} :
                    /\ NetCount(e, "getFee") = 1
                    /\ NetCount(e, "getAccountInfo") = 1
                    /\ NetCount(e, "submitSignedTransaction") = 1
                    /\ Len(signlog[e]) = 1
                    /\ calls[e].result.state = "fulfilled"

\* Two sends with identical inputs both resolved, each after a submit of its own.
C13_Witness ==
    \E c, d \in CallIds :
        /\ c < d
        /\ SameInputs(c, d)
        /\ SendMetNoFailure(c)
        /\ SendMetNoFailure(d)
        /\ NetFulfilled(c, 3, "submitSignedTransaction")
        /\ NetFulfilled(d, 3, "submitSignedTransaction")
        /\ calls[c].result.state = "fulfilled"
        /\ calls[d].result.state = "fulfilled"

\* The transaction send c assembles from its own arguments and the responses to
\* its own getFee and getAccountInfo calls.
OwnTransaction(c) ==
    Transaction(getAddress(calls[c].sender), getAmount(NetValue(c, 1)),
                getSequence(NetValue(c, 2)),
                Payment(calls[c].amount, calls[c].destination))

\* What the finished send c settles with, read from the responses to its own
\* NetworkClient calls and from what the Signer gave for its own transaction; a
\* network client without getFee fails every send alike.
OwnOutcome(c) ==
    CASE "getFee" \notin XpringClient_networkClient_operations ->
            Rejected(NotAFunction("getFee"))
      [] netlog[c][1].settled.state = "rejected" -> netlog[c][1].settled
      [] FeeAmountAbsent(NetValue(c, 1)) -> Rejected(Error(malformedResponse))
      [] netlog[c][2].settled.state = "rejected" -> netlog[c][2].settled
      [] LooseNullish(getSequence(NetValue(c, 2))) -> Rejected(Error(malformedResponse))
      [] signlog[c][1].outcome.threw ->
            Rejected(Error(signingFailure \o ". " \o signlog[c][1].outcome.value.message))
      [] LooseNullish(signlog[c][1].outcome.value) -> Rejected(Error(signingFailure))
      [] OTHER -> netlog[c][3].settled

\* C14: however the backend calls of the sends in flight complete, the
\* transaction a send hands to the Signer is made of its own arguments and of
\* the responses to its own getFee and getAccountInfo calls, its requests carry
\* its own sender and its own signed transaction, and its outcome is the one its
\* own responses give.
C14_SendsAreIndependent ==
    \A c \in CallIds :
        (client = "XpringClient" /\ calls[c].op = "send") =>
            /\ Len(netlog[c]) >= 2 =>
                    netlog[c][2].request = GetAccountInfoRequest(getAddress(calls[c].sender))
            /\ Len(signlog[c]) >= 1 =>
                    /\ signlog[c][1].transaction = OwnTransaction(c)
                    /\ signlog[c][1].wallet = calls[c].sender
            /\ Len(netlog[c]) >= 3 =>
                    netlog[c][3].request =
                        SubmitSignedTransactionRequest(signlog[c][1].outcome.value)
            /\ calls[c].pc = "done" => calls[c].result = OwnOutcome(c)

\* Two sends to different destinations are in flight and the one started later
\* is ahead: its transaction is signed and submitted while the other still waits
\* for its fee.
C14_Witness ==
    \E c, d \in CallIds :
        /\ client = "XpringClient"
        /\ d < c
        /\ calls[c].op = "send"
        /\ calls[d].op = "send"
        /\ calls[c].destination # calls[d].destination
        /\ calls[d].pc = "getFee"
        /\ calls[c].pc = "submitSignedTransaction"
        /\ signlog[c][1].transaction.payment.destination = calls[c].destination

\* The response the fake backend was constructed with for the operation op.
ConfiguredResponse(op) ==
    CASE op = "getAccountInfo" -> responses.getAccountInfoResponse
      [] op = "getFee" -> responses.getFeeResponse
      [] op = "submitSignedTransaction" -> responses.submitSignedTransactionResponse
      [] op = "getLatestValidatedLedgerSequence" ->
            responses.getLatestValidatedLedgerSequenceResponse
      [] op = "getTransactionStatus" -> responses.getTransactionStatusResponse

\* The class of the success value of an operation.
SuccessClass(op) ==
    CASE op = "getAccountInfo" -> "AccountInfo"
      [] op = "getFee" -> "Fee"
      [] op = "submitSignedTransaction" -> "SubmitSignedTransactionResponse"
      [] op = "getLatestValidatedLedgerSequence" -> "LedgerSequence"
      [] op = "getTransactionStatus" -> "TransactionStatus"

\* A promise settled as the slot of op tells, and as no other slot tells:
\* resolved with the response when the slot holds the success value of the
\* operation, rejected with it when the slot holds anything else, an error.
SettledAsConfigured(op, settled) ==
    LET response == ConfiguredResponse(op)
    IN  IF response.kind = SuccessClass(op)
        THEN settled = Resolved(response)
        ELSE settled = Rejected(response)

\* C15: every call of one of the five operations of FakeLegacyNetworkClient,
\* made directly or by a client, settles as the response configured for that
\* operation tells (resolved with a success value, rejected with an error of
\* whatever class), whatever the other four responses are, and a repeated call
\* settles alike.
C15_FakeSettlesAsConfigured ==
    backend = "FakeLegacyNetworkClient" =>
        /\ client = "none" =>
                /\ \A c \in CallIds :
                        calls[c].pc = "done" =>
                            SettledAsConfigured(calls[c].op, calls[c].result)
                /\ \A c, d \in CallIds :
                        (calls[c].pc = "done" /\ calls[d].pc = "done"
                            /\ calls[c].op = calls[d].op)
                            => calls[c].result = calls[d].result
        /\ \A c \in CallIds : \A i \in 1..Len(netlog[c]) :
                netlog[c][i].settled # Pending =>
                    SettledAsConfigured(netlog[c][i].op, netlog[c][i].settled)

\* On a fake whose fee response is an error of a class two classes below Error,
\* whose account info response is an error of another class and whose other
\* responses are the default ones, getFee was called twice and both calls were
\* rejected with the fee error.
C15_Witness ==
    /\ client = "none"
    /\ backend = "FakeLegacyNetworkClient"
    /\ responses.getFeeResponse = TimeoutError("timed out")
    /\ responses.getAccountInfoResponse = TypeError("boom")
    /\ responses.submitSignedTransactionResponse = defaultSubmitSignedTransactionResponse
    /\ \E c, d \in CallIds :
            /\ c # d
            /\ calls[c].op = "getFee"
            /\ calls[c].result = Rejected(TimeoutError("timed out"))
            /\ calls[d].op = "getFee"
            /\ calls[d].result = Rejected(TimeoutError("timed out"))

\* Invocation c is a finished call of an operation of a gRPC network client.
BackendCallDone(c) ==
    /\ client = "none"
    /\ backend \in {"LegacyGRPCNetworkClient", "GRPCNetworkClient"}
    /\ calls[c].pc = "done"

\* C16: every operation of the gRPC network clients settles by one rule: the
\* promise is rejected exactly when the stub's callback reported an error or gave
\* no response (null or undefined), and else it resolves with the response the
\* callback was given.
C16_SettleRule ==
    \A c \in CallIds :
        BackendCallDone(c) =>
            LET error == transport[c][1].error
                response == transport[c][1].response
            IN  /\ calls[c].result.state = "rejected"
                        <=> (~LooseNullish(error) \/ LooseNullish(response))
                /\ calls[c].result.state = "fulfilled" => calls[c].result.value = response

\* C17: when the stub's callback reports no error and gives no response, the
\* operation is rejected, and with an error value as a transport error is; the
\* promise does not resolve with an absent value.
C17_AbsentPayloadIsAnError ==
    \A c \in CallIds :
        (/\ BackendCallDone(c)
         /\ LooseNullish(transport[c][1].error)
         /\ LooseNullish(transport[c][1].response))
            => /\ calls[c].result.state = "rejected"
               /\ calls[c].result.value.kind = "Error"

\* The steps of send that call the NetworkClient, in the order of the pipeline.
PipelineSteps == <<"getFee", "getAccountInfo", "submitSignedTransaction">>

\* C18: in a send of XpringClient the NetworkClient is called in the order getFee,
\* getAccountInfo, submitSignedTransaction, each step after the one before it
\* resolved and none again; the Signer is invoked once at most, only after the
\* fee and the account info were obtained, with the transaction assembled from
\* them; and submitSignedTransaction is called only after the Signer returned a
\* signed transaction, with that transaction.
C18_PipelineOrder ==
    \A c \in CallIds :
        (client = "XpringClient" /\ calls[c].op = "send") =>
            /\ Len(netlog[c]) <= 3
            /\ \A i \in 1..Len(netlog[c]) :
                    /\ netlog[c][i].op = PipelineSteps[i]
                    /\ i < Len(netlog[c]) => netlog[c][i].settled.state = "fulfilled"
            /\ Len(signlog[c]) <= 1
            /\ Len(signlog[c]) = 1 =>
                    /\ NetFulfilled(c, 1, "getFee")
                    /\ ~LooseNullish(getAmount(NetValue(c, 1)))
                    /\ NetFulfilled(c, 2, "getAccountInfo")
                    /\ ~LooseNullish(getSequence(NetValue(c, 2)))
                    /\ signlog[c][1].transaction.fee = getAmount(NetValue(c, 1))
                    /\ signlog[c][1].transaction.sequence = getSequence(NetValue(c, 2))
            /\ Len(netlog[c]) = 3 =>
                    /\ Len(signlog[c]) = 1
                    /\ ~signlog[c][1].outcome.threw
                    /\ ~LooseNullish(signlog[c][1].outcome.value)
                    /\ netlog[c][3].request.signedTransaction = signlog[c][1].outcome.value

\* A send went through all its steps: fee, account info, Signer, submit.
C18_Witness ==
    \E c \in CallIds :
        /\ client = "XpringClient"
        /\ calls[c].op = "send"
        /\ calls[c].pc = "done"
        /\ Len(netlog[c]) = 3
        /\ Len(signlog[c]) = 1
        /\ netlog[c][3].op = "submitSignedTransaction"
        /\ netlog[c][3].settled.state # "pending"

\* The i-th NetworkClient call of send c failed: rejected, or resolved with a
\* response that lacks what the step reads from it.
StepFailed(c, i) ==
    /\ Len(netlog[c]) >= i
    /\ \/ netlog[c][i].settled.state = "rejected"
       \/ /\ netlog[c][i].settled.state = "fulfilled"
          /\ i = 1
          /\ LooseNullish(getAmount(NetValue(c, 1)))
       \/ /\ netlog[c][i].settled.state = "fulfilled"
          /\ i = 2
          /\ LooseNullish(getSequence(NetValue(c, 2)))

\* C19: once a step of a send of XpringClient fails, the send is over and no
\* later step has run: after a failed fee lookup there is no getAccountInfo
\* call, after a failed account info lookup the Signer is not invoked, after a
\* failed signing there is no submitSignedTransaction call, and a send that was
\* rejected after a submit was rejected by that submit.
C19_FailFast ==
    \A c \in CallIds :
        (client = "XpringClient" /\ calls[c].op = "send") =>
            /\ StepFailed(c, 1) =>
                    /\ calls[c].pc = "done"
                    /\ calls[c].result.state = "rejected"
                    /\ Len(netlog[c]) = 1
                    /\ signlog[c] = <<>>
            /\ StepFailed(c, 2) =>
                    /\ calls[c].pc = "done"
                    /\ calls[c].result.state = "rejected"
                    /\ Len(netlog[c]) = 2
                    /\ signlog[c] = <<>>
            /\ (SignerThrew(c) \/ SignerReturnedNothing(c)) =>
                    /\ calls[c].pc = "done"
                    /\ calls[c].result.state = "rejected"
                    /\ NetCount(c, "submitSignedTransaction") = 0
            /\ (calls[c].pc = "done" /\ calls[c].result.state = "rejected"
                    /\ NetCount(c, "submitSignedTransaction") > 0) =>
                    calls[c].result = netlog[c][3].settled

\* The fee lookup of a send was rejected and the send ended there, with that
\* error and one NetworkClient call.
C19_Witness ==
    \E c \in CallIds :
        /\ client = "XpringClient"
        /\ calls[c].op = "send"
        /\ Len(netlog[c]) = 1
        /\ netlog[c][1].op = "getFee"
        /\ netlog[c][1].settled.state = "rejected"
        /\ calls[c].pc = "done"
        /\ calls[c].result = netlog[c][1].settled

\* The operation of the stub that a network client operation calls.
StubOperation(op) == IF op = "injectOperation" THEN "inject" ELSE op

\* C20: nothing is tried again.  A send calls getFee, getAccountInfo and
\* submitSignedTransaction once each at most and the Signer once at most; a
\* getBalance calls getAccountInfo once at most and nothing else; a call of an
\* operation of a gRPC network client calls the stub exactly once, whatever the
\* callback is given.
C20_NoRetry ==
    \A c \in CallIds :
        /\ calls[c].op = "send" =>
                /\ NetCount(c, "getFee") <= 1
                /\ NetCount(c, "getAccountInfo") <= 1
                /\ NetCount(c, "submitSignedTransaction") <= 1
                /\ Len(signlog[c]) <= 1
        /\ calls[c].op = "getBalance" =>
                /\ NetCount(c, "getAccountInfo") <= 1
                /\ Len(netlog[c]) <= 1
                /\ signlog[c] = <<>>
        /\ (client = "none" /\ backend # "FakeLegacyNetworkClient"
                /\ calls[c].op # "none") =>
                /\ Len(transport[c]) = 1
                /\ transport[c][1].op = StubOperation(calls[c].op)

\* A send ended with the rejection of its submit request, having made one call
\* of each operation and one of the Signer.
C20_Witness ==
    \E c \in CallIds :
        /\ client = "XpringClient"
        /\ calls[c].op = "send"
        /\ calls[c].pc = "done"
        /\ Len(netlog[c]) = 3
        /\ netlog[c][3].settled.state = "rejected"
        /\ calls[c].result.state = "rejected"
        /\ NetCount(c, "getFee") = 1
        /\ NetCount(c, "getAccountInfo") = 1
        /\ NetCount(c, "submitSignedTransaction") = 1
        /\ Len(signlog[c]) = 1

\* C21: nothing is kept from one operation to the next.  Every send makes a
\* getFee call of its own and, once it has the fee, a getAccountInfo call of its
\* own, and the transaction it hands to the Signer carries the fee and the
\* sequence those two calls resolved with: where the ledger answered a later
\* send with another fee or sequence than an earlier one, the later transaction
\* carries the later values.
C21_NoCaching ==
    \A c \in CallIds :
        (client = "XpringClient" /\ calls[c].op = "send") =>
            /\ NetCount(c, "getFee") = 1
            /\ netlog[c][1].op = "getFee"
            /\ Len(signlog[c]) >= 1 =>
                    /\ NetCount(c, "getAccountInfo") = 1
                    /\ NetFulfilled(c, 1, "getFee")
                    /\ NetFulfilled(c, 2, "getAccountInfo")
                    /\ signlog[c][1].transaction.fee = getAmount(NetValue(c, 1))
                    /\ signlog[c][1].transaction.sequence = getSequence(NetValue(c, 2))
                    /\ \A d \in CallIds :
                            (d < c /\ calls[d].op = "send" /\ Len(signlog[d]) >= 1) =>
                                /\ NetValue(c, 1) # NetValue(d, 1) =>
                                        signlog[c][1].transaction.fee
                                            # signlog[d][1].transaction.fee
                                /\ NetValue(c, 2) # NetValue(d, 2) =>
                                        signlog[c][1].transaction.sequence
                                            # signlog[d][1].transaction.sequence

\* A first send was answered fee 10 and sequence 12 and has finished; a later
\* send was answered fee 12 and sequence 13, and its transaction carries them.
C21_Witness ==
    \E c, d \in CallIds :
        /\ d < c
        /\ calls[d].op = "send"
        /\ calls[c].op = "send"
        /\ calls[d].pc = "done"
        /\ signlog[d][1].transaction.fee = XRPAmount("10")
        /\ signlog[d][1].transaction.sequence = Num(12)
        /\ Len(signlog[c]) = 1
        /\ signlog[c][1].transaction.fee = XRPAmount("12")
        /\ signlog[c][1].transaction.sequence = Num(13)

\* C22: the transaction a send of XpringClient hands to the Signer has the
\* address of the sender's wallet as account, the amount of the send's own fee
\* response as fee, the sequence of the send's own account info as sequence, and a
\* payment of the caller's amount to the caller's destination; the Signer is given
\* the sender's wallet with it, and one transaction is built in a send.
C22_TransactionAssembly ==
    \A c \in CallIds :
        (client = "XpringClient" /\ calls[c].op = "send") =>
            /\ Len(signlog[c]) <= 1
            /\ \A i \in 1..Len(signlog[c]) :
                    LET transaction == signlog[c][i].transaction
                    IN  /\ transaction.kind = "Transaction"
                        /\ transaction.account = calls[c].sender.address
                        /\ transaction.fee = netlog[c][1].settled.value.amount
                        /\ transaction.sequence = netlog[c][2].settled.value.sequence
                        /\ transaction.payment.xrpAmount = calls[c].amount
                        /\ transaction.payment.destination = calls[c].destination
                        /\ signlog[c][i].wallet = calls[c].sender

\* The Signer was handed the transaction of a send of 1 drop from the wallet to
\* the X-Address, with fee 10 and sequence 13.
C22_Witness ==
    \E c \in CallIds :
        /\ client = "XpringClient"
        /\ calls[c].op = "send"
        /\ Len(signlog[c]) = 1
        /\ signlog[c][1].transaction =
                Transaction("XVYUQ3SdUcVnaTNVanDYo1NamrUukPUPeoGMnmvkEExbtrj",
                            XRPAmount("10"), Num(13),
                            Payment(XRPAmount("1"),
                                    "X7cBcY4bdTTzk3LHmrKAK6GyrirkXfLHGFxzke5zTmYMfw4"))

\* C23: the request a send of XpringClient gives to submitSignedTransaction
\* carries the very value the Signer returned for the transaction of that send,
\* which is the send's own transaction signed with the sender's wallet.
C23_SignedTransactionPassesThrough ==
    \A c \in CallIds :
        (client = "XpringClient" /\ calls[c].op = "send"
            /\ NetCount(c, "submitSignedTransaction") > 0) =>
            /\ Len(signlog[c]) = 1
            /\ netlog[c][3].request.kind = "SubmitSignedTransactionRequest"
            /\ netlog[c][3].request.signedTransaction = signlog[c][1].outcome.value
            /\ signlog[c][1].outcome.value =
                    Signer_signTransaction("signs", OwnTransaction(c), calls[c].sender).value
            /\ \A d \in CallIds :
                    (d # c /\ Len(signlog[d]) = 1
                        /\ signlog[d][1].transaction # signlog[c][1].transaction) =>
                        netlog[c][3].request.signedTransaction # signlog[d][1].outcome.value

\* Two sends to different destinations have both submitted, each the signed
\* transaction of its own.
C23_Witness ==
    \E c, d \in CallIds :
        /\ client = "XpringClient"
        /\ c # d
        /\ calls[c].op = "send"
        /\ calls[d].op = "send"
        /\ calls[c].destination # calls[d].destination
        /\ NetCount(c, "submitSignedTransaction") = 1
        /\ NetCount(d, "submitSignedTransaction") = 1
        /\ netlog[c][3].request.signedTransaction = signlog[c][1].outcome.value
        /\ netlog[d][3].request.signedTransaction = signlog[d][1].outcome.value

\* Invocation c of a client operation was made and has not settled.
Unsettled(c) ==
    /\ client # "none"
    /\ calls[c].pc \notin {"idle", "done"}

\* Invocation c waits: it has not settled and no callback of it is ready to run.
Waits(c) ==
    /\ Unsettled(c)
    /\ ~ENABLED XpringClient_send_getAccountInfo(c)

\* C24: when every NetworkClient call is answered in the end, no operation of a
\* client that was invoked stays pending: again and again every operation
\* invoked so far has settled, resolved or rejected; and an operation that
\* waits is waiting for the answer to the NetworkClient call it made last (fee
\* lookup, account info lookup or submit), and for nothing else.
C24_Termination ==
    /\ [](\A c \in CallIds :
            /\ Unsettled(c) => calls[c].result = Pending
            /\ Waits(c) =>
                    /\ netlog[c] # <<>>
                    /\ netlog[c][Len(netlog[c])].op = calls[c].pc
                    /\ netlog[c][Len(netlog[c])].settled = Pending
            /\ (client # "none" /\ calls[c].pc = "done") => calls[c].result # Pending)
    /\ []<>(\A c \in CallIds : ~Unsettled(c))

\* A send went through its three round trips and has settled.
C24_Witness ==
    \E c \in CallIds :
        /\ client = "XpringClient"
        /\ calls[c].op = "send"
        /\ calls[c].pc = "done"
        /\ calls[c].result # Pending
        /\ Len(netlog[c]) = 3
        /\ \A i \in 1..3 : netlog[c][i].settled # Pending

\* The operations of DefaultXpringClient that are not implemented.
Stubs ==
    {"send", "getTransactionStatus", "getLastValidatedLedgerSequence",
     "getRawTransactionStatus"}

\* C25: send, getTransactionStatus, getLastValidatedLedgerSequence and
\* getRawTransactionStatus of DefaultXpringClient are rejected with the error
\* "Unimplemented." for every argument and over every backend, and call no
\* operation of the NetworkClient (nor the Signer).
C25_StubsAreUnimplemented ==
    \A c \in CallIds :
        (client = "DefaultXpringClient" /\ calls[c].op \in Stubs) =>
            /\ calls[c].pc = "done"
            /\ calls[c].result.state = "rejected"
            /\ calls[c].result.value.kind = "Error"
            /\ calls[c].result.value.message = "Unimplemented."
            /\ netlog[c] = <<>>
            /\ signlog[c] = <<>>
            /\ transport[c] = <<>>

\* Over the fake backend whose every response is the default error, a send and
\* a status query of DefaultXpringClient were both rejected as unimplemented.
C25_Witness ==
    /\ client = "DefaultXpringClient"
    /\ backend = "FakeLegacyNetworkClient"
    /\ responses = defaultErrorResponses
    /\ \E c, d \in CallIds :
            /\ calls[c].op = "send"
            /\ calls[c].result = Rejected(Error("Unimplemented."))
            /\ calls[d].op \in Stubs \ {"send"}
            /\ calls[d].result = Rejected(Error("Unimplemented."))

====
